---- MODULE Spec2Model ----
(***************************************************************************)
(* hotline: pmfx render-graph / resource-lifecycle engine (src/src/pmfx.rs) *)
(* on top of the d3d12 device backend (src/src/gfx/d3d12.rs).              *)
(*                                                                         *)
(* Option<T> values are modelled as sets with at most one element:        *)
(* {} is None and {x} is Some(x).                                          *)
(***************************************************************************)
EXTENDS Integers, Sequences, FiniteSets, TLC

VARIABLES
    device,       \* d3d12 Device: descriptor heaps, cleanup queue, resource counter
    num_bb,       \* SwapChain::num_bb
    held,         \* textures and buffers the device made for the caller, who owns them
    pmfx,         \* the data model (Pmfx::pmfx : File), as merged from the loaded files
    graph_order,  \* HashMap iteration order of the nodes of each render graph
    pipeline_order,  \* HashMap iteration order of the permutations of each pipeline
    textures,     \* Pmfx::textures
    views,        \* Pmfx::views
    view_texture_refs,           \* Pmfx::view_texture_refs
    render_pipelines,            \* Pmfx::render_pipelines
    barriers,                    \* Pmfx::barriers
    render_graph_execute_order,  \* Pmfx::render_graph_execute_order
    active_render_graph,         \* Pmfx::active_render_graph
    compile,      \* locals of a running create_render_graph call
    pc,           \* position of the caller: "idle", "compile", "panicked"
    result,       \* result of the last create_render_graph call: "none", "Ok", "Err"
    submitted,    \* calls made on the device and the command buffers by the last Pmfx::execute
    overflow_checks, \* build profile: TRUE when integer overflow panics (debug), FALSE when it wraps
    shaders,            \* Pmfx::shaders
    compute_pipelines,  \* Pmfx::compute_pipelines
    window_sizes,       \* Pmfx::window_sizes
    pmfx_folders,       \* Pmfx::pmfx_folders: pipeline name -> folder of its data file
    shader_files,       \* the paths of the compiled shader files on disk
    cameras,            \* Pmfx::cameras
    call,         \* the last call of the caller on Pmfx and how it ended
    caller_heap,  \* a descriptor Heap made by create_heap and used on its own
    handle,       \* outcome of the last Heap::allocate on caller_heap
    live,         \* the slots of caller_heap its caller holds
    pmfx_tracking,  \* Pmfx::pmfx_tracking
    disk,         \* the file system: modification time and content of the data files
    now,          \* SystemTime::now()
    reloader,     \* state of Pmfx::reloader: "Unchanged", "Available"
    swap_chain,   \* the SwapChain of the caller's window: back-buffer index and fences
    trace         \* what the last new_frame, reload or update_window call did, in order

vars == <<device, num_bb, held, pmfx, graph_order, pipeline_order, textures, views, view_texture_refs,
          render_pipelines, barriers, render_graph_execute_order, active_render_graph,
          compile, pc, result, submitted, overflow_checks, shaders, compute_pipelines,
          window_sizes, pmfx_folders, shader_files, cameras, call, caller_heap, handle, live,
          pmfx_tracking, disk, now, reloader, swap_chain, trace>>

\* the hot-reload state of Pmfx and what it reads of its environment: the
\* files, the clock and the swap chain
file_vars == <<pmfx_tracking, disk, now, reloader, swap_chain>>

frame_vars == <<file_vars, trace>>

pmfx_vars == <<pmfx, graph_order, pipeline_order, textures, views, view_texture_refs, render_pipelines,
               barriers, render_graph_execute_order, active_render_graph, compile,
               submitted, overflow_checks, shaders, compute_pipelines, window_sizes,
               pmfx_folders, shader_files, cameras, call, frame_vars>>

\* what a create_render_graph call neither reads nor writes, or only reads
api_vars == <<window_sizes, pmfx_folders, shader_files, cameras, call, frame_vars>>

heap_vars == <<caller_heap, handle, live>>

----------------------------------------------------------------------------
(* Bounds of the model *)

\* swap chains of 1..MaxBuffers back buffers
MaxBuffers == 2
\* number of descriptors of each heap of the device in the device-level runs
DeviceHeapSize == 3
\* number of descriptors of each heap of the device under the pmfx engine
PmfxHeapSize == 8
\* textures a device-level run creates
MaxResources == 3
\* how far below 0 a run follows a wrapped counter of the scheduling loop
MaxWrapped == 4
\* number of descriptors of a heap used on its own: 0..HeapSlots
HeapSlots == 4
\* longest free list of a heap used on its own
MaxFreeList == 4
\* number of descriptors of each heap of the device in the runs that recreate
\* textures: room for those of MaxRecreated + 1 multisampled textures
LiveHeapSize == 12
\* textures the device has made before the last update_window or reload of a run
MaxRecreated == 4

\* ID3D12DescriptorHeap::GetCPUDescriptorHandleForHeapStart of the three heaps
ShaderHeapBase == 4096
RtvHeapBase == 8192
DsvHeapBase == 12288
\* ID3D12Device::GetDescriptorHandleIncrementSize
ShaderIncrement == 32
RtvIncrement == 8

----------------------------------------------------------------------------
(* Sequence helpers *)

Range(s) == {s[i] : i \in 1..Len(s)}

Last(s) == s[Len(s)]

\* Vec::remove(i) with i counted from 1
RemoveAt(s, i) == SubSeq(s, 1, i - 1) \o SubSeq(s, i + 1, Len(s))

\* HashMap::insert
MapInsert(m, k, v) == [x \in DOMAIN m \cup {k} |-> IF x = k THEN v ELSE m[x]]

\* HashMap::remove
MapRemove(m, k) == [x \in DOMAIN m \ {k} |-> m[x]]

EmptyMap == [x \in {} |-> {}]

----------------------------------------------------------------------------
(* Descriptor heap: struct Heap, create_heap, impl Heap *)

create_heap(base, incr, num_descriptors) ==
    [base_address |-> base,
     increment_size |-> incr,
     capacity |-> num_descriptors * incr,
     offset |-> 0,
     free_list |-> <<>>]

\* an allocation that hands out the last freed slot and keeps it in the free list
allocate_without_pop(heap) ==
    IF heap.free_list = <<>>
    THEN IF heap.offset >= heap.capacity
         THEN [ok |-> FALSE, heap |-> heap, ptr |-> 0]
         ELSE [ok |-> TRUE,
               heap |-> [heap EXCEPT !.offset = @ + heap.increment_size],
               ptr |-> heap.base_address + heap.offset]
    ELSE [ok |-> TRUE, heap |-> heap, ptr |-> Last(heap.free_list)]

\* an allocation that reuses the slot deallocated first
allocate_oldest(heap) ==
    IF heap.free_list = <<>>
    THEN IF heap.offset >= heap.capacity
         THEN [ok |-> FALSE, heap |-> heap, ptr |-> 0]
         ELSE [ok |-> TRUE,
               heap |-> [heap EXCEPT !.offset = @ + heap.increment_size],
               ptr |-> heap.base_address + heap.offset]
    ELSE [ok |-> TRUE,
          heap |-> [heap EXCEPT !.free_list = SubSeq(@, 2, Len(@))],
          ptr |-> heap.free_list[1]]

\* an allocation that bumps the offset of a full heap once more
allocate_past_end(heap) ==
    IF heap.free_list = <<>>
    THEN IF heap.offset > heap.capacity
         THEN [ok |-> FALSE, heap |-> heap, ptr |-> 0]
         ELSE [ok |-> TRUE,
               heap |-> [heap EXCEPT !.offset = @ + heap.increment_size],
               ptr |-> heap.base_address + heap.offset]
    ELSE [ok |-> TRUE,
          heap |-> [heap EXCEPT !.free_list = SubSeq(@, 1, Len(@) - 1)],
          ptr |-> Last(heap.free_list)]

\* Heap::allocate: [ok, heap, ptr]; ok = FALSE is the panic "heap is full!"
allocate(heap) ==
    IF heap.free_list = <<>>
    THEN IF heap.offset >= heap.capacity
         THEN [ok |-> FALSE, heap |-> heap, ptr |-> 0]
         ELSE [ok |-> TRUE,
               heap |-> [heap EXCEPT !.offset = @ + heap.increment_size],
               ptr |-> heap.base_address + heap.offset]
    ELSE [ok |-> TRUE,
          heap |-> [heap EXCEPT !.free_list = SubSeq(@, 1, Len(@) - 1)],
          ptr |-> Last(heap.free_list)]

get_handle_index(heap, ptr) == (ptr - heap.base_address) \div heap.increment_size

deallocate_internal(heap, ptr) == [heap EXCEPT !.free_list = Append(@, ptr)]

\* <Heap as gfx::Heap>::deallocate
deallocate(heap, index) ==
    deallocate_internal(heap, heap.base_address + heap.increment_size * index)

----------------------------------------------------------------------------
(* SwapChain and CmdBuf: the per-frame buffers *)

\* create_swap_chain_rtv: a render target view for each back buffer, taken
\* from the rtv heap of the device: [ok, dev, rtvs]; ok = FALSE is a panic of
\* Heap::allocate
RECURSIVE create_swap_chain_rtv(_, _, _)
create_swap_chain_rtv(dev, num_buffers, rtvs) ==
    IF Len(rtvs) >= num_buffers THEN [ok |-> TRUE, dev |-> dev, rtvs |-> rtvs]
    ELSE LET a == allocate(dev.rtv_heap)
         IN IF ~a.ok THEN [ok |-> FALSE, dev |-> dev, rtvs |-> rtvs]
            ELSE create_swap_chain_rtv(
                     [dev EXCEPT !.rtv_heap = a.heap, !.next_resource = @ + 1],
                     num_buffers, Append(rtvs, a.ptr))

\* Device::create_swap_chain: [ok, dev, sc]; the swap chain holds the render
\* target views of its back buffers (backbuffer_textures), the back-buffer
\* index and the fences
create_swap_chain(dev, num_buffers, size) ==
    LET r == create_swap_chain_rtv(dev, num_buffers, <<>>)
    IN [ok |-> r.ok,
        dev |-> r.dev,
        sc |-> [width |-> size[1],
                height |-> size[2],
                num_bb |-> num_buffers,
                bb_index |-> 0,
                fence_last_signalled_value |-> 0,
                frame_fence_value |-> [i \in 0..(num_buffers - 1) |-> 0],
                backbuffer_rtv |-> r.rtvs]]

\* the "clean up rtv handles" loop of SwapChain::update
RECURSIVE ReleaseBackBuffers(_, _, _)
ReleaseBackBuffers(dev, rtvs, i) ==
    IF i > Len(rtvs) THEN dev
    ELSE ReleaseBackBuffers(
             [dev EXCEPT !.rtv_heap = deallocate_internal(@, rtvs[i])], rtvs, i + 1)

\* SwapChain::update: [ok, dev, sc].  When the size of the window changed the
\* render target views of the back buffers are released and made again and
\* the back-buffer index is 0; when it did not, the call waits for the frame.
swap_chain_update(dev, sc, size) ==
    IF ~((size[1] # sc.width \/ size[2] # sc.height) /\ size[1] > 0 /\ size[2] > 0)
    THEN [ok |-> TRUE, dev |-> dev, sc |-> sc]
    ELSE LET r == create_swap_chain_rtv(ReleaseBackBuffers(dev, sc.backbuffer_rtv, 1),
                                        sc.num_bb, <<>>)
         IN [ok |-> r.ok,
             dev |-> r.dev,
             sc |-> [sc EXCEPT !.backbuffer_rtv = r.rtvs,
                               !.width = size[1],
                               !.height = size[2],
                               !.bb_index = 0]]

\* SwapChain::swap: the fence of the presented buffer is signalled and the
\* next back buffer becomes the current one
swap(sc) ==
    [sc EXCEPT !.fence_last_signalled_value = @ + 1,
               !.frame_fence_value[sc.bb_index] = sc.fence_last_signalled_value + 1,
               !.bb_index = (@ + 1) % sc.num_bb]

\* Device::create_cmd_buf: num_buffers is the length of its vectors
\* (command_allocator, command_list, in_flight_barriers, needs_reset)
create_cmd_buf(num_buffers) == [bb_index |-> 0, num_buffers |-> num_buffers]

\* CmdBuf::reset: bb_index becomes the back-buffer index of the swap chain;
\* needs_reset[bb] is read when the fence of the buffer is not zero and
\* in_flight_barriers[prev_bb] is cleared: an index past the vectors panics
cmd_buf_reset(cmd, sc) ==
    IF sc.frame_fence_value[sc.bb_index] # 0 /\ sc.bb_index >= cmd.num_buffers
    THEN [ok |-> FALSE, cmd |-> [cmd EXCEPT !.bb_index = sc.bb_index]]
    ELSE IF cmd.bb_index >= cmd.num_buffers
    THEN [ok |-> FALSE, cmd |-> [cmd EXCEPT !.bb_index = sc.bb_index]]
    ELSE [ok |-> TRUE, cmd |-> [cmd EXCEPT !.bb_index = sc.bb_index]]

\* CmdBuf::close and Device::execute index command_list with bb_index
cmd_buf_in_bounds(cmd) == cmd.bb_index < cmd.num_buffers

----------------------------------------------------------------------------
(* Device: create_texture, destroy_texture, clean_up_resources *)

\* rejected: the permutations, as <<pipeline name, permutation>>, for which
\* create_render_pipeline and create_compute_pipeline return Err (a root
\* signature or a pipeline state the driver refuses)
create_device(heap_size) ==
    [shader_heap |-> create_heap(ShaderHeapBase, ShaderIncrement, heap_size),
     rtv_heap |-> create_heap(RtvHeapBase, RtvIncrement, heap_size),
     dsv_heap |-> create_heap(DsvHeapBase, RtvIncrement, heap_size),
     cleanup_textures |-> <<>>,
     next_resource |-> 1,
     next_pipeline |-> 1,
     rejected |-> {}]

\* gfx::BufferUsage
BufferUsages == {"Vertex", "Index", "ConstantBuffer"}

\* Device::create_buffer: [ok, status, dev, buf]; status "Err" is the Err of
\* validate_data_size for data of another size than the buffer, ok = FALSE a
\* panic of Heap::allocate.  A constant buffer takes a descriptor of the shader
\* heap.
create_buffer(dev, usage, data_fits) ==
    LET buf == [resource |-> dev.next_resource,
                vbv |-> usage = "Vertex",
                ibv |-> usage = "Index",
                srv_index |-> {},
                uav_index |-> {}]
        made == [dev EXCEPT !.next_resource = @ + 1]
        a == allocate(dev.shader_heap)
    IN IF ~data_fits THEN [ok |-> TRUE, status |-> "Err", dev |-> dev, buf |-> buf]
       ELSE IF usage # "ConstantBuffer"
       THEN [ok |-> TRUE, status |-> "Ok", dev |-> made, buf |-> buf]
       ELSE IF ~a.ok
       THEN [ok |-> FALSE, status |-> "panic", dev |-> made, buf |-> buf]
       ELSE [ok |-> TRUE, status |-> "Ok",
             dev |-> [made EXCEPT !.shader_heap = a.heap],
             buf |-> [buf EXCEPT !.srv_index = {get_handle_index(a.heap, a.ptr)}]]

\* Record an allocated descriptor in a field of the texture: the shader heap's
\* descriptors by index, the rtv and dsv by handle
Store(tex, field, heap, ptr) ==
    IF field \in {"srv_index", "resolved_srv_index", "uav_index"}
    THEN [tex EXCEPT ![field] = {get_handle_index(heap, ptr)}]
    ELSE [tex EXCEPT ![field] = {ptr}]

\* One optional allocation of Device::create_texture: when `wanted`, take a slot of
\* heap `h` of the device and record it in `field` of the texture.
AllocIf(st, wanted, h, field) ==
    IF ~st.ok \/ ~wanted THEN st
    ELSE LET a == allocate(st.dev[h])
         IN IF ~a.ok THEN [st EXCEPT !.ok = FALSE]
            ELSE [ok |-> TRUE,
                  dev |-> [st.dev EXCEPT ![h] = a.heap],
                  tex |-> Store(st.tex, field, a.heap, a.ptr)]

\* Device::create_texture(info, None): [ok, dev, tex]; ok = FALSE is a panic of
\* Heap::allocate.  info = [usage: gfx::TextureUsage flags, samples, format].
device_create_texture(dev, info) ==
    LET t0 == [resource |-> dev.next_resource,
               resolved_resource |-> IF info.samples > 1 THEN {dev.next_resource} ELSE {},
               samples |-> info.samples,
               format |-> info.format,
               rtv |-> {}, dsv |-> {}, srv_index |-> {},
               resolved_srv_index |-> {}, uav_index |-> {}]
        s0 == [ok |-> TRUE, dev |-> [dev EXCEPT !.next_resource = @ + 1], tex |-> t0]
        s1 == AllocIf(s0, "SHADER_RESOURCE" \in info.usage, "shader_heap", "srv_index")
        s2 == AllocIf(s1, info.samples > 1 /\ "SHADER_RESOURCE" \in info.usage,
                      "shader_heap", "resolved_srv_index")
        s3 == AllocIf(s2, "RENDER_TARGET" \in info.usage, "rtv_heap", "rtv")
        s4 == AllocIf(s3, "DEPTH_STENCIL" \in info.usage, "dsv_heap", "dsv")
    IN AllocIf(s4, "UNORDERED_ACCESS" \in info.usage, "shader_heap", "uav_index")

\* Device::destroy_texture
device_destroy_texture(dev, tex) ==
    [dev EXCEPT !.cleanup_textures = Append(@, [count |-> 0, tex |-> tex])]

\* a reclamation that frees an entry one frame early
CleanupReadyEarly(count, nbb) == count >= nbb

\* Number of frames an entry has to have waited before clean_up_resources frees it
CleanupReady(count, nbb) == count > nbb

\* The descriptor releases of clean_up_resources for one texture
ReleaseDescriptors(dev, tex) ==
    LET d1 == IF tex.srv_index # {}
              THEN [dev EXCEPT !.shader_heap =
                        deallocate(@, CHOOSE i \in tex.srv_index : TRUE)]
              ELSE dev
        d2 == IF tex.uav_index # {}
              THEN [d1 EXCEPT !.shader_heap =
                        deallocate(@, CHOOSE i \in tex.uav_index : TRUE)]
              ELSE d1
        d3 == IF tex.rtv # {}
              THEN [d2 EXCEPT !.rtv_heap =
                        deallocate_internal(@, CHOOSE p \in tex.rtv : TRUE)]
              ELSE d2
    IN IF tex.dsv # {}
       THEN [d3 EXCEPT !.dsv_heap =
                 deallocate_internal(@, CHOOSE p \in tex.dsv : TRUE)]
       ELSE d3

\* a scan that, after it removed the entry at position i, goes on at i + 1
RECURSIVE CleanUpFromNext(_, _, _)
CleanUpFromNext(dev, i, nbb) ==
    IF i > Len(dev.cleanup_textures) THEN dev
    ELSE LET aged == [dev EXCEPT !.cleanup_textures[i].count = @ + 1]
             e == aged.cleanup_textures[i]
         IN IF CleanupReady(e.count, nbb)
            THEN CleanUpFromNext(
                    ReleaseDescriptors(
                        [aged EXCEPT !.cleanup_textures = RemoveAt(@, i)], e.tex),
                    i + 1, nbb)
            ELSE CleanUpFromNext(aged, i + 1, nbb)

\* The scan of clean_up_resources from queue position i (counted from 1): the
\* entry is aged by one frame; an entry that waited long enough is removed and
\* the scan restarts at the same position.
RECURSIVE CleanUpFrom(_, _, _)
CleanUpFrom(dev, i, nbb) ==
    IF i > Len(dev.cleanup_textures) THEN dev
    ELSE LET aged == [dev EXCEPT !.cleanup_textures[i].count = @ + 1]
             e == aged.cleanup_textures[i]
         IN IF CleanupReady(e.count, nbb)
            THEN CleanUpFrom(
                    ReleaseDescriptors(
                        [aged EXCEPT !.cleanup_textures = RemoveAt(@, i)], e.tex),
                    i, nbb)
            ELSE CleanUpFrom(aged, i + 1, nbb)

\* Device::clean_up_resources
clean_up_resources(dev, nbb) == CleanUpFrom(dev, 1, nbb)

----------------------------------------------------------------------------
(* Device: create_render_pass *)

\* One render target of the loop of Device::create_render_pass.
\* acc = [status, sample_count (Option), rt, formats]
RenderPassTarget(acc, target) ==
    IF acc.status # "Ok" THEN acc
    ELSE IF acc.sample_count # {} /\ acc.sample_count # {target.samples}
         THEN [acc EXCEPT !.status = "Err"]
    ELSE IF target.rtv = {} THEN [acc EXCEPT !.status = "panic"]
    ELSE [acc EXCEPT !.sample_count = {target.samples},
                     !.rt = Append(@, CHOOSE p \in target.rtv : TRUE),
                     !.formats = Append(@, target.format)]

RECURSIVE RenderPassTargets(_, _, _)
RenderPassTargets(acc, targets, i) ==
    IF i > Len(targets) THEN acc
    ELSE RenderPassTargets(RenderPassTarget(acc, targets[i]), targets, i + 1)

\* Device::create_render_pass: [status, pass]; status is "Ok", "Err" (sample counts
\* differ) or "panic" (unwrap of a missing rtv, dsv or sample count).
\* info = [render_targets: Seq(Texture), depth_stencil: Option<Texture>]
create_render_pass(info) ==
    LET acc == RenderPassTargets(
                   [status |-> "Ok", sample_count |-> {}, rt |-> <<>>, formats |-> <<>>],
                   info.render_targets, 1)
        ds_tex == CHOOSE t \in info.depth_stencil : TRUE
        no_pass == [rt |-> <<>>, ds |-> {}, sample_count |-> 0, format_hash |-> <<>>]
    IN IF acc.status # "Ok" THEN [status |-> acc.status, pass |-> no_pass]
       ELSE IF info.depth_stencil # {} /\ ds_tex.dsv = {}
            THEN [status |-> "panic", pass |-> no_pass]
       ELSE IF acc.sample_count = {} THEN [status |-> "panic", pass |-> no_pass]
       ELSE LET sc == CHOOSE n \in acc.sample_count : TRUE
                ds_format == IF info.depth_stencil = {} THEN "UNKNOWN" ELSE ds_tex.format
            IN [status |-> "Ok",
                pass |-> [rt |-> acc.rt,
                          ds |-> IF info.depth_stencil = {} THEN {} ELSE ds_tex.dsv,
                          sample_count |-> sc,
                          format_hash |-> <<sc, ds_format, acc.formats>>]]

\* Texture::is_resolvable
is_resolvable(tex) == tex.resolved_resource # {}

----------------------------------------------------------------------------
(* Pmfx: textures and views.                                                *)
(* The operators take and return the engine state st: the fields of Pmfx,   *)
(* the device, the locals of create_render_graph and the status of the call *)
(* ("run", or "Err"/"panic" once the call has failed).                      *)

\* maths_rs::max
Max(a, b) == IF a > b THEN a ELSE b

\* the f32 product of a dimension and a ratio scale, cast to u64 (the cast
\* truncates); a scale is held as its number of halves: 1 is 0.5, 2 is 1.0
ScaledSize(dimension, scale) == (dimension * scale) \div 2

\* Pmfx::get_texture_size_from_ratio: [ok, size]; ok = FALSE is the Err of a
\* window that is not tracked
get_texture_size_from_ratio(st, pmfx_texture) ==
    IF pmfx_texture.ratio # {}
    THEN LET ratio == CHOOSE r \in pmfx_texture.ratio : TRUE
             samples == pmfx_texture.samples
         IN IF ratio.window \in DOMAIN st.window_sizes
            THEN [ok |-> TRUE,
                  size |-> <<ScaledSize(Max(st.window_sizes[ratio.window][1], samples),
                                        ratio.scale),
                             ScaledSize(Max(st.window_sizes[ratio.window][2], samples),
                                        ratio.scale)>>]
            ELSE [ok |-> FALSE, size |-> <<0, 0>>]
    ELSE [ok |-> TRUE, size |-> <<pmfx_texture.width, pmfx_texture.height>>]

\* to_gfx_texture_info: usage flags from the Vec<ResourceState> of the data file
to_gfx_texture_info(pmfx_texture, ratio_size) ==
    [width |-> ratio_size[1],
     height |-> ratio_size[2],
     usage |->
        (IF "ShaderResource" \in pmfx_texture.usage THEN {"SHADER_RESOURCE"} ELSE {}) \cup
        (IF "UnorderedAccess" \in pmfx_texture.usage THEN {"UNORDERED_ACCESS"} ELSE {}) \cup
        (IF "RenderTarget" \in pmfx_texture.usage THEN {"RENDER_TARGET"} ELSE {}) \cup
        (IF "DepthStencil" \in pmfx_texture.usage THEN {"DEPTH_STENCIL"} ELSE {}),
     samples |-> pmfx_texture.samples,
     format |-> pmfx_texture.format]

\* the insert of create_texture: r is the outcome of Device::create_texture
TrackedTexture(st, texture_name, size, r) ==
    IF ~r.ok THEN [st EXCEPT !.status = "panic", !.device = r.dev]
    ELSE [st EXCEPT !.device = r.dev,
                    !.textures = MapInsert(@, texture_name,
                                     [hash |-> st.pmfx.textures[texture_name].hash,
                                      texture |-> r.tex,
                                      ratio |-> st.pmfx.textures[texture_name].ratio,
                                      size |-> size])]

\* create_texture from the resolved size on: sz is the outcome of
\* get_texture_size_from_ratio, whose Err is returned
SizedTexture(st, texture_name, sz) ==
    IF ~sz.ok THEN [st EXCEPT !.status = "Err"]
    ELSE TrackedTexture(st, texture_name, sz.size,
             device_create_texture(st.device,
                 to_gfx_texture_info(st.pmfx.textures[texture_name], sz.size)))

\* a create_texture that does not look for an existing texture of the name
create_texture_again(st, texture_name) ==
    IF st.status # "run" THEN st
    ELSE IF texture_name \in DOMAIN st.pmfx.textures
    THEN SizedTexture(st, texture_name,
             get_texture_size_from_ratio(st, st.pmfx.textures[texture_name]))
    ELSE st

\* Pmfx::create_texture
create_texture(st, texture_name) ==
    IF st.status # "run" THEN st
    ELSE IF texture_name \notin DOMAIN st.textures /\ texture_name \in DOMAIN st.pmfx.textures
    THEN SizedTexture(st, texture_name,
             get_texture_size_from_ratio(st, st.pmfx.textures[texture_name]))
    ELSE st

\* the back reference texture -> graph view that create_view records
TextureRef(st, name, graph_view_name) ==
    IF st.status # "run" THEN st
    ELSE [st EXCEPT !.view_texture_refs =
              MapInsert(@, name,
                  (IF name \in DOMAIN @ THEN @[name] ELSE {}) \cup {graph_view_name})]

\* One target of the texture loops of create_view: create it and record the
\* back reference
ViewTarget(st, name, graph_view_name) ==
    TextureRef(create_texture(st, name), name, graph_view_name)

RECURSIVE ViewTargets(_, _, _, _)
ViewTargets(st, names, i, graph_view_name) ==
    IF i > Len(names) THEN st
    ELSE ViewTargets(ViewTarget(st, names[i], graph_view_name), names, i + 1,
                     graph_view_name)

\* the view pipeline of create_view: the single pipeline of the node, if any
ViewPipeline(info) ==
    IF info.pipelines # {} /\ Len(CHOOSE p \in info.pipelines : TRUE) = 1
    THEN (CHOOSE p \in info.pipelines : TRUE)[1]
    ELSE ""

\* create_view: `size` after the loop over the render targets from target i on
RECURSIVE TargetsSize(_, _, _, _)
TargetsSize(st, names, i, size) ==
    IF i > Len(names) THEN size
    ELSE TargetsSize(st, names, i + 1, st.textures[names[i]].size)

\* create_view: `size` when the viewport is built
ViewSize(st, pmfx_view) ==
    IF pmfx_view.depth_stencil # <<>>
    THEN st.textures[pmfx_view.depth_stencil[1]].size
    ELSE TargetsSize(st, pmfx_view.render_target, 1, <<0, 0>>)

\* the insert of create_view: rp is the outcome of Device::create_render_pass
\* (its Err is unwrapped)
TrackedView(st, view_name, graph_view_name, info, rp) ==
    IF rp.status # "Ok" THEN [st EXCEPT !.status = "panic"]
    ELSE [st EXCEPT !.views = MapInsert(@, graph_view_name,
            [hash |-> st.pmfx.views[view_name].hash,
             pmfx_view_name |-> view_name,
             pass |-> rp.pass,
             viewport |-> [width |-> ViewSize(st, st.pmfx.views[view_name])[1],
                           height |-> ViewSize(st, st.pmfx.views[view_name])[2]],
             scissor_rect |-> [right |-> ViewSize(st, st.pmfx.views[view_name])[1],
                               bottom |-> ViewSize(st, st.pmfx.views[view_name])[2]],
             cmd_buf |-> create_cmd_buf(2),
             view_pipeline |-> ViewPipeline(info)])]

\* create_view once the textures of the view are created: the render pass over
\* the targets (a target missing from the texture map is a panic)
ViewPass(st, view_name, graph_view_name, info) ==
    LET pmfx_view == st.pmfx.views[view_name]
    IN IF st.status # "run" THEN st
       ELSE IF \E i \in 1..Len(pmfx_view.render_target) :
                   pmfx_view.render_target[i] \notin DOMAIN st.textures
            THEN [st EXCEPT !.status = "panic"]
       ELSE IF pmfx_view.depth_stencil # <<>>
               /\ pmfx_view.depth_stencil[1] \notin DOMAIN st.textures
            THEN [st EXCEPT !.status = "panic"]
       ELSE TrackedView(st, view_name, graph_view_name, info,
                create_render_pass(
                    [render_targets |->
                        [i \in 1..Len(pmfx_view.render_target) |->
                            st.textures[pmfx_view.render_target[i]].texture],
                     depth_stencil |->
                        IF pmfx_view.depth_stencil = <<>> THEN {}
                        ELSE {st.textures[pmfx_view.depth_stencil[1]].texture}]))

\* Pmfx::create_view
create_view(st, view_name, graph_view_name, info) ==
    IF st.status # "run" THEN st
    ELSE IF graph_view_name \notin DOMAIN st.views /\ view_name \in DOMAIN st.pmfx.views
    THEN ViewPass(
             ViewTargets(
                 ViewTargets(st, st.pmfx.views[view_name].render_target, 1,
                             graph_view_name),
                 st.pmfx.views[view_name].depth_stencil, 1, graph_view_name),
             view_name, graph_view_name, info)
    ELSE st

RECURSIVE GraphViews(_, _, _, _)
GraphViews(st, graph, order, i) ==
    IF i > Len(order) \/ st.status # "run" THEN st
    ELSE GraphViews(create_view(st, graph[order[i]].view, order[i], graph[order[i]]),
                    graph, order, i + 1)

\* Pmfx::create_render_graph_views
create_render_graph_views(st, graph_name) ==
    IF graph_name \in DOMAIN st.pmfx.render_graphs
    THEN GraphViews(st, st.pmfx.render_graphs[graph_name], st.graph_order[graph_name], 1)
    ELSE st

\* the permutation keys str::parse::<u32> reads as a number
MaskStrings == <<"0", "1", "2", "3", "4", "5", "6", "7", "8", "9">>

\* str::parse::<u32> of a permutation key of the data file: the mask, or None
\* for a key that is not a number
ParseMask(permutation) ==
    {mask \in 0..(Len(MaskStrings) - 1) : permutation = MaskStrings[mask + 1]}

\* the shader files the permutations of a pipeline name
ShaderFiles(pipeline) ==
    UNION {pipeline[p].vs \cup pipeline[p].ps \cup pipeline[p].cs : p \in DOMAIN pipeline}

\* Path::parent: the path without its last component
Parent(path) == SubSeq(path, 1, Len(path) - 1)

\* the path of the shader file `name` of a pipeline whose data file was loaded
\* from `folder`: the file lies in the parent of the folder
ShaderPath(folder, name) == Append(Parent(folder), name)

\* Pmfx::create_shader for the vs, ps or cs of a permutation of a pipeline
\* loaded from `folder` (the empty path has no parent: unwrap of None): a
\* shader that is not there yet is read from its file in the parent of the
\* folder (a file that is not there: unwrap of the Err of fs::read), compiled
\* and stored with the hash the data model declares (a shader the model does
\* not declare: unwrap of None)
create_shader(st, folder, file) ==
    IF st.status # "run" THEN st
    ELSE IF folder = <<>> THEN [st EXCEPT !.status = "panic"]
    ELSE IF file = {} \/ file \subseteq DOMAIN st.shaders THEN st
    ELSE IF ~({ShaderPath(folder, name) : name \in file} \subseteq st.shader_files)
    THEN [st EXCEPT !.status = "panic"]
    ELSE IF ~(file \subseteq DOMAIN st.pmfx.shaders) THEN [st EXCEPT !.status = "panic"]
    ELSE [st EXCEPT !.shaders =
             [name \in DOMAIN @ \cup file |->
                 IF name \in file THEN [hash |-> st.pmfx.shaders[name]] ELSE @[name]]]

\* the shaders loop of create_pipeline from the i-th permutation of the
\* iteration order on: vs, ps, cs of each permutation in turn; the shaders
\* stored before a panic stay
RECURSIVE CreateShadersFrom(_, _, _, _, _)
CreateShadersFrom(st, folder, pipeline, order, i) ==
    IF i > Len(order) \/ st.status # "run" THEN st
    ELSE CreateShadersFrom(
             create_shader(create_shader(create_shader(st, folder, pipeline[order[i]].vs),
                                         folder, pipeline[order[i]].ps),
                           folder, pipeline[order[i]].cs),
             folder, pipeline, order, i + 1)

\* the shaders loop of create_pipeline, with the folder the pipeline was loaded
\* from
create_shaders(st, pipeline_name) ==
    CreateShadersFrom(st, st.pmfx_folders[pipeline_name], st.pmfx.pipelines[pipeline_name],
                      st.pipeline_order[pipeline_name], 1)

\* Pmfx::get_shader
get_shader(st, file) == file \cap DOMAIN st.shaders

\* the body of the permutations loop of create_pipeline, for the build with
\* the number `build`: a permutation whose compute shader is there goes to
\* compute_pipelines under the pipeline name, in place of the permutation that
\* went there before it; another one needs a vertex layout (unwrap) and goes to
\* the permutation set of the format under its mask (parse().unwrap()).  A
\* permutation the device refuses (device.rejected) ends the call with Err.
\* The pipeline state objects the device returns are told apart by the number
\* of the build and the mask.
CreatePermutation(st, pipeline_name, fmt, permutation, build) ==
    LET pipeline == st.pmfx.pipelines[pipeline_name][permutation]
        refused == <<pipeline_name, permutation>> \in st.device.rejected
    IN IF st.status # "run" THEN st
       ELSE IF get_shader(st, pipeline.cs) # {}
       THEN IF refused THEN [st EXCEPT !.status = "Err"]
            ELSE [st EXCEPT
                     !.device.next_pipeline = build + 1,
                     !.compute_pipelines =
                         MapInsert(@, pipeline_name,
                                   [hash |-> pipeline.hash, pso |-> <<build, "cs">>])]
       ELSE IF pipeline.vertex_layout = {} THEN [st EXCEPT !.status = "panic"]
       ELSE IF refused THEN [st EXCEPT !.status = "Err"]
       ELSE IF ParseMask(permutation) = {}
       THEN [st EXCEPT !.device.next_pipeline = build + 1, !.status = "panic"]
       ELSE [st EXCEPT
                !.device.next_pipeline = build + 1,
                !.render_pipelines[fmt][pipeline_name] =
                    MapInsert(@, CHOOSE mask \in ParseMask(permutation) : TRUE,
                              [hash |-> pipeline.hash,
                               pso |-> <<build,
                                         CHOOSE mask \in ParseMask(permutation) : TRUE>>])]

\* the permutations loop of create_pipeline from the i-th permutation of the
\* iteration order on; the permutations built before an Err or a panic stay
RECURSIVE CreatePermutationsFrom(_, _, _, _, _, _)
CreatePermutationsFrom(st, pipeline_name, fmt, order, i, build) ==
    IF i > Len(order) \/ st.status # "run" THEN st
    ELSE CreatePermutationsFrom(
             CreatePermutation(st, pipeline_name, fmt, order[i], build),
             pipeline_name, fmt, order, i + 1, build)

\* create_pipeline for a format without an entry for the pipeline name: the
\* empty entry of the name, then the permutations in the iteration order of
\* the HashMap of the pipeline
CreatePermutations(st, pipeline_name, fmt) ==
    CreatePermutationsFrom(
        [st EXCEPT !.render_pipelines[fmt] = MapInsert(@, pipeline_name, EmptyMap)],
        pipeline_name, fmt, st.pipeline_order[pipeline_name], 1,
        st.device.next_pipeline)

\* create_pipeline once the shaders are there: the entry of the format, and the
\* permutations if the format has no entry for the pipeline name
FormatPipelines(st, pipeline_name, fmt) ==
    IF st.status # "run" THEN st
    ELSE IF fmt \notin DOMAIN st.render_pipelines
    THEN CreatePermutations(
             [st EXCEPT !.render_pipelines = MapInsert(@, fmt, EmptyMap)],
             pipeline_name, fmt)
    ELSE IF pipeline_name \notin DOMAIN st.render_pipelines[fmt]
    THEN CreatePermutations(st, pipeline_name, fmt)
    ELSE st

\* Pmfx::create_pipeline: one entry per permutation of the pipeline, under the
\* format hash of the pass
create_pipeline(st, pipeline_name, pass) ==
    IF st.status # "run" THEN st
    ELSE IF pipeline_name \in DOMAIN st.pmfx.pipelines
    THEN IF pipeline_name \notin DOMAIN st.pmfx_folders
         THEN [st EXCEPT !.status = "panic"]
         ELSE FormatPipelines(create_shaders(st, pipeline_name),
                              pipeline_name, pass.format_hash)
    ELSE [st EXCEPT !.status = "Err"]

----------------------------------------------------------------------------
(* Pmfx: lookups by name; [status, value] with status "Ok", "Err" or "panic" *)

\* Pmfx::get_view
get_view(st, view_name) ==
    IF view_name \in DOMAIN st.views
    THEN [status |-> "Ok", value |-> {st.views[view_name]}]
    ELSE [status |-> "Err", value |-> {}]

\* Pmfx::get_camera_constants
get_camera_constants(st, name) ==
    IF name \in DOMAIN st.cameras
    THEN [status |-> "Ok", value |-> {st.cameras[name]}]
    ELSE [status |-> "Err", value |-> {}]

\* Pmfx::get_render_pipeline_permutation_for_format; the permutation is looked
\* up with the Index of the HashMap, which panics on a missing key
get_render_pipeline_permutation_for_format(st, pipeline_name, permutation, format_hash) ==
    IF format_hash \in DOMAIN st.render_pipelines
    THEN IF pipeline_name \in DOMAIN st.render_pipelines[format_hash]
         THEN IF permutation \in DOMAIN st.render_pipelines[format_hash][pipeline_name]
              THEN [status |-> "Ok",
                    value |-> {st.render_pipelines[format_hash][pipeline_name][permutation]}]
              ELSE [status |-> "panic", value |-> {}]
         ELSE [status |-> "Err", value |-> {}]
    ELSE [status |-> "Err", value |-> {}]

\* Pmfx::update_camera_constants
update_camera_constants(st, name, constants) ==
    [st EXCEPT !.cameras = MapInsert(@, name, constants)]

----------------------------------------------------------------------------
(* Pmfx: barriers *)

BarrierName(view_name, texture_name) == "barrier_" \o view_name \o "-" \o texture_name

ResolveBarrierName(view_name, texture_name) ==
    "barrier_resolve-" \o view_name \o "-" \o texture_name

\* a recorded command of a barrier command buffer
Transition(sub, before, after) ==
    [op |-> "transition", sub |-> sub, before |-> before, after |-> after]

\* does create_texture_transition_barrier record a barrier?
NeedsTransition(state, target_state) == state # target_state

\* does create_resolve_transition record a barrier? (the source has `if true`)
NeedsResolve(state, target_state) == TRUE

\* Pmfx::create_texture_transition_barrier
create_texture_transition_barrier(st, view_name, texture_name, target_state) ==
    IF st.status # "run" THEN st
    ELSE IF texture_name \in DOMAIN st.texture_barriers
            /\ NeedsTransition(st.texture_barriers[texture_name], target_state)
    THEN LET state == st.texture_barriers[texture_name]
             barrier_name == BarrierName(view_name, texture_name)
             pushed == [st EXCEPT !.render_graph_execute_order = Append(@, barrier_name)]
         IN IF texture_name \notin DOMAIN st.textures
            THEN [pushed EXCEPT !.status = "panic"]
            ELSE [pushed EXCEPT
                    !.barriers = MapInsert(@, barrier_name,
                        [texture |-> texture_name,
                         resource |-> st.textures[texture_name].texture.resource,
                         cmds |-> <<Transition("Resource", state, target_state)>>]),
                    !.texture_barriers = MapInsert(@, texture_name, target_state)]
    ELSE st

\* a resolve step whose Err ends the compilation
create_resolve_transition_or_abort(st, view_name, texture_name, target_state) ==
    IF st.status # "run" THEN st
    ELSE IF texture_name \in DOMAIN st.texture_barriers
            /\ texture_name \in DOMAIN st.textures
            /\ ~is_resolvable(st.textures[texture_name].texture)
    THEN [st EXCEPT !.status = "Err",
                    !.resolve_errors = @ \cup {texture_name}]
    ELSE st

\* Pmfx::create_resolve_transition; a returned Err is recorded in resolve_errors
create_resolve_transition(st, view_name, texture_name, target_state) ==
    IF st.status # "run" THEN st
    ELSE IF texture_name \in DOMAIN st.texture_barriers
            /\ NeedsResolve(st.texture_barriers[texture_name], target_state)
    THEN LET state == st.texture_barriers[texture_name]
             barrier_name == ResolveBarrierName(view_name, texture_name)
             pushed == [st EXCEPT !.render_graph_execute_order = Append(@, barrier_name)]
         IN IF texture_name \notin DOMAIN st.textures THEN pushed
            ELSE IF ~is_resolvable(st.textures[texture_name].texture)
            THEN [pushed EXCEPT !.resolve_errors = @ \cup {texture_name}]
            ELSE [pushed EXCEPT
                    !.barriers = MapInsert(@, barrier_name,
                        [texture |-> texture_name,
                         resource |-> st.textures[texture_name].texture.resource,
                         cmds |-> <<Transition("Resource", state, "ResolveSrc"),
                                    Transition("ResolveResource", target_state, "ResolveDst"),
                                    [op |-> "resolve", sub |-> "ResolveResource",
                                     before |-> "ResolveDst", after |-> "ResolveDst"],
                                    Transition("ResolveResource", "ResolveDst", target_state)>>]),
                    !.texture_barriers = MapInsert(@, texture_name, "ResolveSrc")]
    ELSE st

RECURSIVE TargetBarriers(_, _, _, _, _)
TargetBarriers(st, view_name, names, i, target_state) ==
    IF i > Len(names) THEN st
    ELSE TargetBarriers(
            create_texture_transition_barrier(st, view_name, names[i], target_state),
            view_name, names, i + 1, target_state)

----------------------------------------------------------------------------
(* Pmfx::create_render_graph *)

\* the textures the render graph tracks a resource state for
TracksState(usage) ==
    \/ "ShaderResource" \in usage
    \/ "RenderTarget" \in usage
    \/ "DepthStencil" \in usage

SeedBarriers(file) ==
    [name \in {n \in DOMAIN file.textures : TracksState(file.textures[n].usage)} |->
        "ShaderResource"]

\* A usize of the program is 64 bits wide.  The model holds a usize as the
\* integer nearest to 0 that is congruent to it modulo 2^64 (the value read as
\* an isize): 0 - 1 = usize::MAX = 2^64 - 1 is held as -1, usize::MAX - 1 as -2.

\* usize subtraction of 1: a debug build panics on underflow, a release build
\* wraps to usize::MAX
UsizeDecrement(n, checks) ==
    IF n # 0 THEN [ok |-> TRUE, value |-> n - 1]
    ELSE IF checks THEN [ok |-> FALSE, value |-> n]
    ELSE [ok |-> TRUE, value |-> -1]

\* a < b for two usize values
UsizeLess(a, b) ==
    IF (a >= 0) = (b >= 0) THEN a < b ELSE a >= 0

\* the counter to_add has wrapped below 0: `added`, at most the number of
\* nodes, stays below it for more than 2^63 further decrements, so the loop
\* `while added < to_add` goes on for longer than any run waits for it
Wrapped(to_add) == to_add < 0

\* a dependency test that waits for every entry, missing nodes included
EntryPassesStrict(d, graph, dependencies) == d \in dependencies

\* the value the loop over depends_on assigns to `passes` for the entry d
EntryPasses(d, graph, dependencies) ==
    IF d \notin DOMAIN graph THEN TRUE
    ELSE IF d \in dependencies THEN TRUE
    ELSE FALSE

\* the `passes` flag after the loop over depends_on, from entry i on
RECURSIVE DependsOnPasses(_, _, _, _, _)
DependsOnPasses(depends_on, i, passes, graph, dependencies) ==
    IF i > Len(depends_on) THEN passes
    ELSE DependsOnPasses(depends_on, i + 1,
                         EntryPasses(depends_on[i], graph, dependencies),
                         graph, dependencies)

\* "wait for dependencies": may the node be scheduled now?
DependenciesMet(instance, graph, dependencies) ==
    IF instance.depends_on = {} THEN TRUE
    ELSE DependsOnPasses(CHOOSE d \in instance.depends_on : TRUE, 1, FALSE,
                         graph, dependencies)

RECURSIVE NodePipelines(_, _, _, _)
NodePipelines(st, graph_view_name, pipelines, i) ==
    IF i > Len(pipelines) \/ st.status # "run" THEN st
    ELSE IF graph_view_name \notin DOMAIN st.views
         THEN [st EXCEPT !.status = "Err"]
         ELSE NodePipelines(
                create_pipeline(st, pipelines[i], st.views[graph_view_name].pass),
                graph_view_name, pipelines, i + 1)

\* the pipelines of a scheduled node, if it names any
InstancePipelines(st, graph_view_name, instance) ==
    IF instance.pipelines = {} THEN st
    ELSE NodePipelines(st, graph_view_name, CHOOSE p \in instance.pipelines : TRUE, 1)

\* the push of a scheduled node on the execution order
NodeAdded(st, graph_view_name) ==
    IF st.status # "run" THEN st
    ELSE [st EXCEPT !.added = @ + 1,
                    !.dependencies = @ \cup {graph_view_name},
                    !.render_graph_execute_order = Append(@, graph_view_name)]

\* the body of the loop over the nodes of the graph, for one node
GraphNode(st, graph_view_name, checks) ==
    LET graph == st.pmfx.render_graphs[st.graph_name]
        instance == graph[graph_view_name]
    IN IF st.status # "run" THEN st
       ELSE IF instance.view \notin DOMAIN st.pmfx.views
       THEN LET d == UsizeDecrement(st.to_add, checks)
            IN IF d.ok THEN [st EXCEPT !.to_add = d.value]
               ELSE [st EXCEPT !.status = "panic"]
       ELSE IF graph_view_name \in st.dependencies THEN st
       ELSE IF ~DependenciesMet(instance, graph, st.dependencies) THEN st
       ELSE LET pmfx_view == st.pmfx.views[instance.view]
            IN NodeAdded(
                   InstancePipelines(
                       TargetBarriers(
                           TargetBarriers(st, instance.view, pmfx_view.render_target, 1,
                                          "RenderTarget"),
                           instance.view, pmfx_view.depth_stencil, 1, "DepthStencil"),
                       graph_view_name, instance),
                   graph_view_name)

RECURSIVE GraphNodes(_, _, _, _)
GraphNodes(st, order, i, checks) ==
    IF i > Len(order) THEN st
    ELSE GraphNodes(GraphNode(st, order[i], checks), order, i + 1,
                    checks)

\* a create_render_graph that keeps the barrier set and the execution order of
\* the compilation before it
GraphResetKeeping(st, graph_name) ==
    IF st.status # "run" THEN st
    ELSE [st EXCEPT !.graph_name = graph_name,
                    !.texture_barriers = SeedBarriers(st.pmfx),
                    !.to_add = Len(st.graph_order[graph_name]),
                    !.added = 0,
                    !.dependencies = {},
                    !.resolve_errors = {}]

\* the locals and resets of create_render_graph, once the views are created
GraphReset(st, graph_name) ==
    IF st.status # "run" THEN st
    ELSE [st EXCEPT !.barriers = EmptyMap,
                    !.render_graph_execute_order = <<>>,
                    !.graph_name = graph_name,
                    !.texture_barriers = SeedBarriers(st.pmfx),
                    !.to_add = Len(st.graph_order[graph_name]),
                    !.added = 0,
                    !.dependencies = {},
                    !.resolve_errors = {}]

\* a create_render_graph that resets the barrier set and the execution order
\* before it looks for the graph
GraphBeginCleared(st, graph_name) ==
    IF graph_name \notin DOMAIN st.pmfx.render_graphs
    THEN [st EXCEPT !.status = "Err",
                    !.barriers = EmptyMap,
                    !.render_graph_execute_order = <<>>]
    ELSE GraphReset(create_render_graph_views(st, graph_name), graph_name)

\* create_render_graph up to the scheduling loop: the views, the reset of the
\* barrier set and of the execution order, the tracking map and the counters
GraphBegin(st, graph_name) ==
    IF graph_name \notin DOMAIN st.pmfx.render_graphs
    THEN [st EXCEPT !.status = "Err"]
    ELSE GraphReset(create_render_graph_views(st, graph_name), graph_name)

\* one iteration of `while added < to_add`: a scan of all nodes of the graph
GraphPassOver(st, checks) ==
    GraphNodes(st, st.graph_order[st.graph_name], 1, checks)

\* the end-of-frame transitions of one tracked texture
EndOfFrame(st, name) ==
    create_texture_transition_barrier(
        create_resolve_transition(st, "eof", name, "ShaderResource"),
        "eof", name, "ShaderResource")

RECURSIVE EndOfFrames(_, _, _)
EndOfFrames(st, srvs, i) ==
    IF i > Len(srvs) THEN st
    ELSE EndOfFrames(EndOfFrame(st, srvs[i]), srvs, i + 1)

\* the compiled graph becomes the active one
GraphActive(st) ==
    IF st.status # "run" THEN st
    ELSE [st EXCEPT !.active_render_graph = st.graph_name]

\* create_render_graph after the scheduling loop; srvs lists the keys of the
\* tracking map in the iteration order of the HashMap
GraphEnd(st, srvs) == GraphActive(EndOfFrames(st, srvs, 1))

----------------------------------------------------------------------------
(* Pmfx::execute *)

\* a dispatch that submits the views before the barriers have run: a view
\* entry is submitted at once and not closed, a barrier entry is dropped
ExecuteNodeUnclosed(st, node) ==
    IF node \in DOMAIN st.views
    THEN <<[op |-> "execute", kind |-> "view", cmd |-> node]>>
    ELSE <<>>

\* the Device::execute and CmdBuf::close calls of one entry of the order
ExecuteNode(st, node) ==
    IF node \in DOMAIN st.barriers
    THEN <<[op |-> "execute", kind |-> "barrier", cmd |-> node]>>
    ELSE IF node \in DOMAIN st.views
    THEN <<[op |-> "close", kind |-> "view", cmd |-> node],
           [op |-> "execute", kind |-> "view", cmd |-> node]>>
    ELSE <<>>

\* the close of the command buffer of a view entry indexes past its buffers
ClosePanics(st, node) ==
    /\ node \notin DOMAIN st.barriers
    /\ node \in DOMAIN st.views
    /\ ~cmd_buf_in_bounds(st.views[node].cmd_buf)

RECURSIVE ExecuteFrom(_, _)
ExecuteFrom(st, i) ==
    IF i > Len(st.render_graph_execute_order) THEN <<>>
    ELSE IF ClosePanics(st, st.render_graph_execute_order[i]) THEN <<>>
    ELSE ExecuteNode(st, st.render_graph_execute_order[i]) \o ExecuteFrom(st, i + 1)

\* Pmfx::execute panics at an entry of the order
ExecutePanics(st) ==
    \E i \in 1..Len(st.render_graph_execute_order) :
        ClosePanics(st, st.render_graph_execute_order[i])

\* Pmfx::execute: the calls made on the device and on the command buffers
execute(st) == ExecuteFrom(st, 1)

----------------------------------------------------------------------------
(* Pmfx::create_render_graph as one call, for the callers inside Pmfx *)

\* the loop `while added < to_add`.  A pass that changes nothing is followed by
\* the same pass for ever.  Once to_add has wrapped below 0 the passes go on:
\* a later pass may still schedule a node, return Err or panic; a pass that
\* changes nothing but the wrapped to_add is followed by passes that do the
\* same, for longer than any run waits for.  In both cases the call does not
\* return (status "hang").
RECURSIVE GraphLoop(_, _)
RECURSIVE GraphLoopFrom(_, _, _)
GraphLoop(st, checks) ==
    IF st.status # "run" \/ ~UsizeLess(st.added, st.to_add) THEN st
    ELSE GraphLoopFrom(st, GraphPassOver(st, checks), checks)

GraphLoopFrom(st, after, checks) ==
    IF after = st THEN [st EXCEPT !.status = "hang"]
    ELSE IF Wrapped(after.to_add) /\ after = [st EXCEPT !.to_add = after.to_add]
    THEN [after EXCEPT !.status = "hang"]
    ELSE GraphLoop(after, checks)

\* Pmfx::create_render_graph; srvs lists the keys of the tracking map in the
\* iteration order of the HashMap
create_render_graph(st, graph_name, checks, srvs) ==
    GraphEnd(GraphLoop(GraphBegin(st, graph_name), checks), srvs)

\* the folder of the data file, as the components of its path
LoadPath == <<"data", "scene">>

\* Path::to_string_lossy
RECURSIVE PathString(_)
PathString(path) ==
    IF Len(path) = 1 THEN path[1]
    ELSE PathString(SubSeq(path, 1, Len(path) - 1)) \o "/" \o Last(path)

\* load: the name a data file is indexed by, the last component of its folder
PmfxName(folder) == Last(folder)

\* load: the path of the json file of the folder
InfoFilepath(folder) == Append(folder, PmfxName(folder) \o ".json")

\* load: the tracking entry of a data file, with the modification time of the
\* json file
Tracked(folder, fs) ==
    [filepath |-> InfoFilepath(folder),
     modified_time |-> fs[PathString(InfoFilepath(folder))].modified]

\* the path of the json file of the data file on disk
InfoPath == PathString(InfoFilepath(LoadPath))

\* the record of a step of a call: a call on the swap chain or the device, or
\* a change of a map of Pmfx, and the names it is about
Logged(st, op, of) ==
    IF st.status # "run" THEN st
    ELSE [st EXCEPT !.log = Append(@, [op |-> op, of |-> of])]

\* the record of a step that is taken when `names` is not empty
LoggedIf(st, op, names) == IF names = {} THEN st ELSE Logged(st, op, names)

\* Result::unwrap on the outcome of a call
Unwrap(st) == IF st.status = "Err" THEN [st EXCEPT !.status = "panic"] ELSE st

\* the recompilation of the active render graph that ends update_window and reload
Recompile(st, rebuild, checks, srvs) ==
    IF rebuild /\ st.status = "run"
    THEN Unwrap(create_render_graph(
                    Logged(st, "create_render_graph", {st.active_render_graph}),
                    st.active_render_graph, checks, srvs))
    ELSE st

----------------------------------------------------------------------------
(* Pmfx::recreate_textures, Pmfx::update_window *)

\* the body of the loop of recreate_textures
RecreateTexture(st, texture_name) ==
    IF st.status # "run" THEN st
    ELSE IF texture_name \notin DOMAIN st.textures THEN [st EXCEPT !.status = "panic"]
    ELSE Unwrap(create_texture(
             [Logged(st, "destroy_texture", {texture_name}) EXCEPT
                 !.textures = MapRemove(@, texture_name),
                 !.device = device_destroy_texture(@, st.textures[texture_name].texture)],
             texture_name))

\* Pmfx::recreate_textures; texture_names lists the set in its iteration order
RECURSIVE recreate_textures(_, _, _)
recreate_textures(st, texture_names, i) ==
    IF i > Len(texture_names) THEN st
    ELSE recreate_textures(RecreateTexture(st, texture_names[i]), texture_names, i + 1)

\* a lookup that finds no view for any texture
no_view_texture_refs(st, texture_name) == {}

\* Pmfx::get_view_texture_refs
get_view_texture_refs(st, texture_name) ==
    IF texture_name \in DOMAIN st.view_texture_refs
    THEN st.view_texture_refs[texture_name]
    ELSE {}

\* update_window: the live textures whose ratio names the window, when the
\* tracked size of the window changes
WindowTextures(st, size, name) ==
    IF name \in DOMAIN st.window_sizes /\ st.window_sizes[name] # size
    THEN {t \in DOMAIN st.textures :
             /\ st.textures[t].ratio # {}
             /\ (CHOOSE r \in st.textures[t].ratio : TRUE).window = name}
    ELSE {}

\* update_window: the views it removes
WindowViews(st, size, name) ==
    UNION {get_view_texture_refs(st, t) : t \in WindowTextures(st, size, name)}

\* Pmfx::update_window; recreate lists recreate_texture_names in its iteration
\* order
update_window(st, size, name, recreate, checks, srvs) ==
    Recompile(
        recreate_textures(
            [LoggedIf(st, "views.remove", WindowViews(st, size, name)) EXCEPT
                 !.views = [v \in DOMAIN @ \ WindowViews(st, size, name) |-> @[v]],
                 !.window_sizes = MapInsert(@, name, size)],
            recreate, 1),
        WindowViews(st, size, name) # {}, checks, srvs)

----------------------------------------------------------------------------
(* Pmfx::reload *)

\* HashMap::extend
Extend(m, other) ==
    [k \in DOMAIN m \cup DOMAIN other |-> IF k \in DOMAIN other THEN other[k] ELSE m[k]]

\* Pmfx::merge_pmfx
merge_pmfx(file, other) ==
    [textures |-> Extend(file.textures, other.textures),
     views |-> Extend(file.views, other.views),
     render_graphs |-> Extend(file.render_graphs, other.render_graphs),
     pipelines |-> Extend(file.pipelines, other.pipelines),
     shaders |-> Extend(file.shaders, other.shaders)]

\* u32::to_string of a permutation mask
MaskString(mask) == MaskStrings[mask + 1]

\* reload: the live textures whose hash differs from the data model's
ReloadTextures(st) ==
    {k \in DOMAIN st.textures :
        /\ k \in DOMAIN st.pmfx.textures
        /\ st.pmfx.textures[k].hash # st.textures[k].hash}

\* reload: the views of the changed textures
ReloadTextureViews(st) == UNION {get_view_texture_refs(st, t) : t \in ReloadTextures(st)}

\* reload: the live views whose hash differs or whose textures changed
ReloadViews(st) ==
    {name \in DOMAIN st.views :
        /\ st.views[name].pmfx_view_name \in DOMAIN st.pmfx.views
        /\ \/ st.pmfx.views[st.views[name].pmfx_view_name].hash # st.views[name].hash
           \/ name \in ReloadTextureViews(st)}

\* reload: (format, pipeline name, mask) of the permutations whose hash differs
ReloadPipelines(st) ==
    {p \in UNION {UNION {{<<fmt, name, mask>> :
                              mask \in DOMAIN st.render_pipelines[fmt][name]} :
                         name \in DOMAIN st.render_pipelines[fmt]} :
                  fmt \in DOMAIN st.render_pipelines} :
        st.render_pipelines[p[1]][p[2]][p[3]].hash
            # st.pmfx.pipelines[p[2]][MaskString(p[3])].hash}

\* reload: the live shaders whose hash differs
ReloadShaders(st) ==
    {name \in DOMAIN st.shaders :
        /\ name \in DOMAIN st.pmfx.shaders
        /\ st.pmfx.shaders[name] # st.shaders[name].hash}

\* reload: a live view whose pass has the format, if there is one
CompatibleView(st, fmt) == {v \in DOMAIN st.views : st.views[v].pass.format_hash = fmt}

\* reload: the rebuild of a removed pipeline against a compatible view, when
\* there is one
RebuildPipeline(st, pipeline_name, fmt) ==
    IF CompatibleView(st, fmt) = {} THEN st
    ELSE Unwrap(create_pipeline(st, pipeline_name,
                    st.views[CHOOSE v \in CompatibleView(st, fmt) : TRUE].pass))

\* reload: the body of the loop over the changed permutations: the whole
\* permutation set of the pipeline name is removed from the format
ReloadPipeline(st, p) ==
    IF st.status # "run" THEN st
    ELSE RebuildPipeline(
             [Logged(st, "render_pipelines.remove", {p[2]}) EXCEPT
                 !.render_pipelines[p[1]] = MapRemove(@, p[2])],
             p[2], p[1])

RECURSIVE ReloadPipelinesFrom(_, _, _)
ReloadPipelinesFrom(st, pipelines, i) ==
    IF i > Len(pipelines) THEN st
    ELSE ReloadPipelinesFrom(ReloadPipeline(st, pipelines[i]), pipelines, i + 1)

\* reload: the files whose modification time on disk is later than the tracked
\* one, as the strings of their paths
ReloadPaths(st, fs) ==
    {PathString(st.pmfx_tracking[name].filepath) :
        name \in {n \in DOMAIN st.pmfx_tracking :
                     fs[PathString(st.pmfx_tracking[n].filepath)].modified
                         > st.pmfx_tracking[n].modified_time}}

\* reload: "update the timestamp on the tracking info", a lookup of the
\* tracking map with the path of the file
TimestampUpdated(st, reload_filepath, time) ==
    IF st.status # "run" THEN st
    ELSE IF reload_filepath \in DOMAIN st.pmfx_tracking
    THEN [st EXCEPT !.pmfx_tracking[reload_filepath].modified_time = time]
    ELSE st

\* reload: the removal of the views and shaders that changed
Removed(st, removed, stale_shaders) ==
    IF st.status # "run" THEN st
    ELSE [LoggedIf(LoggedIf(st, "views.remove", removed),
                   "shaders.remove", stale_shaders) EXCEPT
             !.views = [v \in DOMAIN @ \ removed |-> @[v]],
             !.shaders = [s \in DOMAIN @ \ stale_shaders |-> @[s]]]

\* reload: the body of the loop over reload_paths for one file after its
\* merge: st.pmfx is the merged data model; `reload_textures` and
\* `reload_pipelines` list the sets of the same name in their iteration order;
\* `removed` is reload_views and `stale` is reload_shaders, both computed
\* before the textures are recreated; `path` is reload_filepath;
\* `rebuild_graph` is the flag as the files before this one left it
ReloadMerged(st, path, time, reload_textures, reload_pipelines, removed, stale, rebuild_graph, checks, srvs) ==
    Recompile(
        TimestampUpdated(
            ReloadPipelinesFrom(
                Removed(recreate_textures(st, reload_textures, 1), removed, stale),
                reload_pipelines, 1),
            path, time),
        rebuild_graph \/ removed # {}, checks, srvs)

\* reload of one file from its merge on
ReloadFrom(merged, reload_filepath, time, reload_textures, reload_pipelines, rebuild_graph, checks, srvs) ==
    ReloadMerged(merged, reload_filepath, time, reload_textures, reload_pipelines,
                 ReloadViews(merged), ReloadShaders(merged), rebuild_graph, checks, srvs)

\* reload and load: the file read from disk and merged into the data model.
\* The render graphs and the pipelines of the file are new HashMaps, which
\* take the place of those of the same name: `orders` holds the orders in
\* which they iterate their keys
MergedFile(st, file, orders) ==
    [Logged(Logged(st, "read", {}), "merge_pmfx", {}) EXCEPT
        !.pmfx = merge_pmfx(@, file),
        !.graph_order = Extend(@, orders.graph_order),
        !.pipeline_order = Extend(@, orders.pipeline_order)]

\* reload: the loop over reload_paths from the i-th path on.  choices[i] holds
\* the iteration orders met while the i-th file is reloaded: `orders` of the
\* HashMaps of the file, `reload_textures`, `reload_pipelines`, and `srvs` of
\* the tracking map of a recompilation.  rebuild_graph is declared before the
\* loop: once a file has removed a view, the active render graph is compiled
\* again after that file and after every file that follows it
RECURSIVE ReloadPathsFrom(_, _, _, _, _, _, _, _)
RECURSIVE ReloadPathsMerged(_, _, _, _, _, _, _, _)
ReloadPathsFrom(st, fs, time, reload_paths, choices, i, rebuild_graph, checks) ==
    IF i > Len(reload_paths) \/ st.status # "run" THEN st
    ELSE ReloadPathsMerged(MergedFile(st, fs[reload_paths[i]].file, choices[i].orders),
                           fs, time, reload_paths, choices, i, rebuild_graph, checks)

ReloadPathsMerged(merged, fs, time, reload_paths, choices, i, rebuild_graph, checks) ==
    ReloadPathsFrom(
        ReloadFrom(merged, reload_paths[i], time, choices[i].reload_textures,
                   choices[i].reload_pipelines, rebuild_graph, checks, choices[i].srvs),
        fs, time, reload_paths, choices, i + 1,
        rebuild_graph \/ ReloadViews(merged) # {}, checks)

\* Pmfx::reload; fs is the file system and time the clock; reload_paths lists
\* ReloadPaths(st, fs) in the iteration order of the tracking map
reload(st, fs, time, reload_paths, choices, checks) ==
    ReloadPathsFrom(st, fs, time, reload_paths, choices, 1, FALSE, checks)

----------------------------------------------------------------------------
(* Pmfx::load *)

\* Pmfx::load of the folder `folder`, the components of its path: a folder
\* whose name is tracked already is not read again; the json file of the
\* folder is read (an Err when there is none); every pipeline of the file
\* takes the folder as the folder of its shaders; the file is tracked with
\* its modification time and merged into the data model.  `orders` holds the
\* iteration orders of the HashMaps of the file
load(st, folder, fs, orders) ==
    IF st.status # "run" \/ PmfxName(folder) \in DOMAIN st.pmfx_tracking THEN st
    ELSE IF PathString(InfoFilepath(folder)) \notin DOMAIN fs
    THEN [st EXCEPT !.status = "Err"]
    ELSE [MergedFile(st, fs[PathString(InfoFilepath(folder))].file, orders) EXCEPT
             !.pmfx_folders =
                 Extend(@, [name \in DOMAIN fs[PathString(InfoFilepath(folder))].file.pipelines
                               |-> folder]),
             !.pmfx_tracking = MapInsert(@, PmfxName(folder), Tracked(folder, fs))]

----------------------------------------------------------------------------
(* Pmfx::new_frame *)

\* Reloader::complete_reload
complete_reload(st) ==
    IF st.status # "run" THEN st
    ELSE [Logged(st, "complete_reload", {}) EXCEPT !.reloader = "Unchanged"]

\* reset: the views whose command buffers are reset, those of the execution
\* order
ResetViews(st) == DOMAIN st.views \cap Range(st.render_graph_execute_order)

\* reset: the body of the loop over self.views, from entry i of view_order on:
\* CmdBuf::reset on the command buffer of a view of the execution order.  A
\* panic of CmdBuf::reset comes after it has written bb_index, and ends the
\* loop with the views before it reset
RECURSIVE ResetFrom(_, _, _)
ResetFrom(st, view_order, i) ==
    IF i > Len(view_order) \/ st.status # "run" THEN st
    ELSE IF view_order[i] \notin ResetViews(st) THEN ResetFrom(st, view_order, i + 1)
    ELSE ResetFrom(
             [st EXCEPT
                 !.views[view_order[i]].cmd_buf = cmd_buf_reset(@, st.swap_chain).cmd,
                 !.status = IF cmd_buf_reset(st.views[view_order[i]].cmd_buf,
                                             st.swap_chain).ok
                            THEN "run" ELSE "panic"],
             view_order, i + 1)

\* Pmfx::reset; view_order lists the keys of self.views in the iteration order
\* of the HashMap
reset(st, view_order) == ResetFrom(Logged(st, "reset", ResetViews(st)), view_order, 1)

\* a new_frame that reloads while the last frame may still be on the GPU
new_frame_unsynchronised(st, fs, time, reload_paths, choices, checks, view_order) ==
    IF st.reloader = "Available"
    THEN reset(complete_reload(
                   Logged(reload(Logged(st, "reload", {}), fs, time, reload_paths,
                                 choices, checks),
                          "wait_for_last_frame", {})),
               view_order)
    ELSE reset(st, view_order)

\* Pmfx::new_frame
new_frame(st, fs, time, reload_paths, choices, checks, view_order) ==
    IF st.reloader = "Available"
    THEN reset(complete_reload(
                   reload(Logged(Logged(st, "wait_for_last_frame", {}), "reload", {}),
                          fs, time, reload_paths, choices, checks)),
               view_order)
    ELSE reset(st, view_order)
----------------------------------------------------------------------------
(* Device-level runs: a caller creates, destroys and reclaims textures *)

\* gfx::TextureInfo values handed to Device::create_texture
GfxTextureInfos ==
    {[width |-> 64, height |-> 64,
      usage |-> {"SHADER_RESOURCE", "RENDER_TARGET"}, samples |-> 1, format |-> "RGBA8n"],
     [width |-> 64, height |-> 64,
      usage |-> {"SHADER_RESOURCE", "RENDER_TARGET"}, samples |-> 4, format |-> "RGBA8n"],
     [width |-> 64, height |-> 64,
      usage |-> {"SHADER_RESOURCE", "DEPTH_STENCIL"}, samples |-> 1, format |-> "D24nS8u"],
     [width |-> 64, height |-> 64,
      usage |-> {"SHADER_RESOURCE", "UNORDERED_ACCESS"}, samples |-> 1, format |-> "RGBA8n"]}

NoCompile ==
    [graph_name |-> "", to_add |-> 0, added |-> 0, dependencies |-> {},
     texture_barriers |-> EmptyMap, resolve_errors |-> {}]

\* the caller has not called Pmfx yet
NoCall ==
    [fn |-> "none", args |-> <<>>, status |-> "none", value |-> {}, times |-> 0,
     active |-> ""]

\* Pmfx::create
PmfxCreate ==
    /\ textures = EmptyMap
    /\ views = EmptyMap
    /\ view_texture_refs = EmptyMap
    /\ render_pipelines = EmptyMap
    /\ barriers = EmptyMap
    /\ render_graph_execute_order = <<>>
    /\ active_render_graph = ""
    /\ compile = NoCompile
    /\ submitted = <<>>
    /\ shaders = EmptyMap
    /\ compute_pipelines = EmptyMap
    /\ window_sizes = EmptyMap
    /\ cameras = EmptyMap
    /\ call = NoCall
    /\ reloader = "Unchanged"
    /\ trace = <<>>

\* the outcome of Heap::allocate before any call
NoHandle == [status |-> "none", ptr |-> 0]

\* no heap is used on its own
NoHeap ==
    /\ caller_heap = create_heap(ShaderHeapBase, ShaderIncrement, 0)
    /\ handle = NoHandle
    /\ live = {}

EmptyFile ==
    [textures |-> EmptyMap, views |-> EmptyMap, render_graphs |-> EmptyMap,
     pipelines |-> EmptyMap, shaders |-> EmptyMap]

\* the size of the window when its swap chain is created
FirstSize == <<640, 480>>

\* the size the caller gives the window in a run
ResizedTo == <<800, 600>>

\* the sizes SwapChain::update finds the window to have: minimised, as it
\* was, resized
SwapChainSizes == {<<0, 0>>, FirstSize, ResizedTo}

\* Device::create_swap_chain on the device dev: the device and the swap chain of
\* the window before its first swap
WithSwapChain(dev) ==
    /\ create_swap_chain(dev, num_bb, FirstSize).ok
    /\ device = create_swap_chain(dev, num_bb, FirstSize).dev
    /\ swap_chain = create_swap_chain(dev, num_bb, FirstSize).sc

\* no data file is loaded
NoFiles ==
    /\ pmfx_tracking = EmptyMap
    /\ disk = EmptyMap
    /\ now = 0

\* the back buffers made for the swap chain so far: those of
\* create_swap_chain and those of the resize
SwapChainResources ==
    IF <<swap_chain.width, swap_chain.height>> = FirstSize THEN num_bb ELSE 2 * num_bb

\* the textures among the resources of the caller
HeldTextures == {t \in held : "rtv" \in DOMAIN t}

InitDevice ==
    /\ num_bb \in 1..MaxBuffers
    /\ WithSwapChain(create_device(DeviceHeapSize))
    /\ held = {}
    /\ pmfx = EmptyFile
    /\ graph_order = EmptyMap
    /\ pipeline_order = EmptyMap
    /\ pmfx_folders = EmptyMap
    /\ shader_files = {}
    /\ PmfxCreate
    /\ pc = "idle"
    /\ result = "none"
    /\ overflow_checks = FALSE
    /\ NoHeap
    /\ NoFiles

DevCreateTexture ==
    /\ pc = "idle"
    /\ device.next_resource <= SwapChainResources + MaxResources
    /\ \E info \in GfxTextureInfos :
          LET r == device_create_texture(device, info)
          IN /\ device' = r.dev
             /\ held' = IF r.ok THEN held \cup {r.tex} ELSE held
             /\ pc' = IF r.ok THEN "idle" ELSE "panicked"
    /\ UNCHANGED <<num_bb, pmfx_vars, result, heap_vars>>

DevDestroyTexture ==
    /\ pc = "idle"
    /\ \E tex \in HeldTextures :
          /\ device' = device_destroy_texture(device, tex)
          /\ held' = held \ {tex}
    /\ UNCHANGED <<num_bb, pmfx_vars, pc, result, heap_vars>>

DevCleanUpResources ==
    /\ pc = "idle"
    /\ device' = clean_up_resources(device, num_bb)
    /\ trace' = <<[op |-> "clean_up_resources",
                   of |-> {device.cleanup_textures[i].tex.resource :
                              i \in 1..Len(device.cleanup_textures)}]>>
    /\ UNCHANGED <<num_bb, held, pmfx, graph_order, pipeline_order, textures, views, view_texture_refs,
                   render_pipelines, barriers, render_graph_execute_order,
                   active_render_graph, compile, shaders, compute_pipelines,
                   window_sizes, pmfx_folders, shader_files, cameras, call, file_vars, pc, result,
                   submitted, overflow_checks,
                   heap_vars>>

\* Device::create_buffer; the caller keeps the buffer it returns
DevCreateBuffer ==
    /\ pc = "idle"
    /\ device.next_resource <= SwapChainResources + MaxResources
    /\ \E usage \in BufferUsages, data_fits \in BOOLEAN :
          LET r == create_buffer(device, usage, data_fits)
          IN /\ device' = r.dev
             /\ held' = IF r.status = "Ok" THEN held \cup {r.buf} ELSE held
             /\ pc' = IF r.ok THEN "idle" ELSE "panicked"
    /\ UNCHANGED <<num_bb, pmfx_vars, result, heap_vars>>

\* SwapChain::update with the size of the window; in a run the caller
\* resizes the window once
UpdateSwapChain(size) ==
    /\ pc = "idle"
    /\ size \in {<<0, 0>>, ResizedTo, <<swap_chain.width, swap_chain.height>>}
    /\ \E r \in {swap_chain_update(device, swap_chain, size)} :
          /\ device' = r.dev
          /\ swap_chain' = r.sc
          /\ pc' = IF r.ok THEN "idle" ELSE "panicked"
    /\ UNCHANGED <<num_bb, held, pmfx, graph_order, pipeline_order, textures, views, view_texture_refs,
                   render_pipelines, barriers, render_graph_execute_order,
                   active_render_graph, compile, result, submitted, overflow_checks,
                   shaders, compute_pipelines, window_sizes, pmfx_folders, shader_files, cameras, call,
                   heap_vars, pmfx_tracking, disk, now, reloader, trace>>

NextDevice ==
    \/ DevCreateTexture
    \/ DevDestroyTexture
    \/ DevCleanUpResources
    \/ DevCreateBuffer
    \/ \E size \in SwapChainSizes : UpdateSwapChain(size)

SpecDevice == InitDevice /\ [][NextDevice]_vars

----------------------------------------------------------------------------
(* Render-graph runs: a caller compiles a render graph of a loaded data     *)
(* file and executes it                                                     *)

\* names of the nodes of a graph, in the iteration order of its HashMap
NodeNames == <<"n1", "n2", "n3", "n4">>

\* the names a caller passes to create_render_graph
GraphNames == {"main", "post", "missing_graph"}

Prefix(s, n) == [i \in 1..n |-> s[i]]

ColourTexture(samples) ==
    [ratio |-> {}, width |-> 64, height |-> 64,
     usage |-> {"ShaderResource", "RenderTarget"}, samples |-> samples,
     format |-> "RGBA8n", hash |-> 1]

DepthTexture ==
    [ratio |-> {}, width |-> 64, height |-> 64,
     usage |-> {"ShaderResource", "DepthStencil"}, samples |-> 1,
     format |-> "D24nS8u", hash |-> 2]

GbufferView == [render_target |-> <<"albedo">>, depth_stencil |-> <<"depth">>, hash |-> 3]

FilePipelines ==
    [p \in {"mesh"} |-> [permutation \in {"0", "1"} |->
                            [vs |-> {"vs_mesh"}, ps |-> {"ps_mesh"}, cs |-> {},
                             vertex_layout |-> {"position"},
                             hash |-> IF permutation = "0" THEN 4 ELSE 5]]]

FileShaders == [s \in {"vs_mesh", "ps_mesh"} |-> IF s = "vs_mesh" THEN 8 ELSE 9]

\* a data file: one geometry view writing a colour and a depth target, and no
\* pipeline
SceneFile(graph) ==
    [textures |-> [t \in {"albedo", "depth"} |->
                      IF t = "albedo" THEN ColourTexture(1) ELSE DepthTexture],
     views |-> [v \in {"gbuffer"} |-> GbufferView],
     render_graphs |-> [g \in {"main"} |-> graph],
     pipelines |-> EmptyMap,
     shaders |-> EmptyMap]

\* a second render graph of a data file: one node drawing the overlay view
PostGraph ==
    [n \in {"m1"} |-> [view |-> "overlay", pipelines |-> {}, depends_on |-> {}]]

\* a data file: a geometry view, a multisampled lighting view, an overlay view
\* drawing over the colour target of the geometry view; two render graphs
DeferredFile(graph) ==
    [textures |-> [t \in {"albedo", "msaa", "depth"} |->
                      IF t = "albedo" THEN ColourTexture(1)
                      ELSE IF t = "msaa" THEN ColourTexture(4)
                      ELSE DepthTexture],
     views |-> [v \in {"gbuffer", "lighting", "overlay"} |->
                   IF v = "gbuffer" THEN GbufferView
                   ELSE IF v = "lighting"
                   THEN [render_target |-> <<"msaa">>, depth_stencil |-> <<>>, hash |-> 6]
                   ELSE [render_target |-> <<"albedo">>, depth_stencil |-> <<>>, hash |-> 7]],
     render_graphs |-> [g \in {"main", "post"} |-> IF g = "main" THEN graph ELSE PostGraph],
     pipelines |-> FilePipelines,
     shaders |-> FileShaders]

\* depends_on of a node: absent, empty, or up to `longest` entries naming other
\* nodes of the graph or a node the graph does not have
DependsOnLists(node, nodes, longest) ==
    LET targets == (nodes \ {node}) \cup {"missing_node"}
    IN {{}, {<<>>}}
       \cup {{<<d>>} : d \in targets}
       \cup (IF longest < 2 THEN {}
             ELSE {{<<d[1], d[2]>>} : d \in {e \in targets \X targets : e[1] # e[2]}})

\* depends_on of a node: absent or the node after it in the iteration order
DependsOnNext(node, nodes) ==
    {{}} \cup {{<<NodeNames[i + 1]>>} : i \in {j \in 1..(Len(NodeNames) - 1) :
                                                  NodeNames[j] = node
                                                  /\ NodeNames[j + 1] \in nodes}}

\* depends_on of a node: absent or the node before it in the iteration order
DependsOnPrevious(node, nodes) ==
    {{}} \cup {{<<NodeNames[i]>>} : i \in {j \in 1..(Len(NodeNames) - 1) :
                                              NodeNames[j + 1] = node
                                              /\ NodeNames[j] \in nodes}}

\* the depends_on lists of the first node have up to two entries, those of the
\* other nodes one
LongestDependsOn(node) == IF node = NodeNames[1] THEN 2 ELSE 1

\* graphs of three nodes over the geometry view or an undeclared view,
\* with every shape of depends_on
DependencyGraphs ==
    LET nodes == Range(Prefix(NodeNames, 3))
    IN {g \in [nodes -> [view : {"gbuffer", "missing_view"},
                         pipelines : {{}},
                         depends_on : UNION {DependsOnLists(n, nodes, 2) : n \in nodes}]] :
            \A n \in nodes :
                g[n].depends_on \in DependsOnLists(n, nodes, LongestDependsOn(n))}

\* graphs of four nodes over the geometry view or an undeclared view,
\* with chains of dependencies on later nodes
ChainGraphs ==
    LET nodes == Range(Prefix(NodeNames, 4))
    IN {g \in [nodes -> [view : {"gbuffer", "missing_view"},
                         pipelines : {{}},
                         depends_on : UNION {DependsOnNext(n, nodes) : n \in nodes}]] :
            \A n \in nodes : g[n].depends_on \in DependsOnNext(n, nodes)}

\* depends_on of a node: absent or one other node of the graph
DependsOnOther(node, nodes) == {{}} \cup {{<<d>>} : d \in nodes \ {node}}

\* graphs of two nodes over the geometry view or an undeclared view, each node
\* free or depending on the other: among them the two-node cycle
CycleGraphs ==
    LET nodes == Range(Prefix(NodeNames, 2))
    IN {g \in [nodes -> [view : {"gbuffer", "missing_view"},
                         pipelines : {{}},
                         depends_on : UNION {DependsOnOther(n, nodes) : n \in nodes}]] :
            \A n \in nodes : g[n].depends_on \in DependsOnOther(n, nodes)}

\* graphs of one or two nodes over the three views of the deferred file,
\* with pipelines on the first node
DeferredGraphs ==
    UNION {
        LET nodes == Range(Prefix(NodeNames, k))
        IN {g \in [nodes -> [view : {"gbuffer", "lighting", "overlay"},
                             pipelines : {{}, {<<"mesh">>}, {<<"mesh", "undeclared">>}},
                             depends_on : UNION {DependsOnPrevious(n, nodes) : n \in nodes}]] :
                \A n \in nodes :
                    /\ g[n].depends_on \in DependsOnPrevious(n, nodes)
                    /\ (n # NodeNames[1] => g[n].pipelines = {})}
        : k \in 1..2}

\* a data file whose view is called "eof", the view name create_render_graph
\* passes for the end-of-frame barriers
EofViewFile ==
    [textures |-> [t \in {"albedo"} |-> ColourTexture(1)],
     views |-> [v \in {"eof"} |->
                   [render_target |-> <<"albedo">>, depth_stencil |-> <<>>, hash |-> 3]],
     render_graphs |-> [g \in {"main"} |->
                           [n \in {"n1"} |->
                               [view |-> "eof", pipelines |-> {}, depends_on |-> {}]]],
     pipelines |-> FilePipelines,
     shaders |-> FileShaders]

\* a data file with hyphens in its names: view "a" writes texture "b-c" and
\* view "a-b" writes texture "c"
HyphenFile ==
    [textures |-> [t \in {"b-c", "c"} |-> ColourTexture(1)],
     views |-> [v \in {"a", "a-b"} |->
                   [render_target |-> IF v = "a" THEN <<"b-c">> ELSE <<"c">>,
                    depth_stencil |-> <<>>, hash |-> 3]],
     render_graphs |-> [g \in {"main"} |->
                           [n \in {"n1", "n2"} |->
                               [view |-> IF n = "n1" THEN "a" ELSE "a-b",
                                pipelines |-> {}, depends_on |-> {}]]],
     pipelines |-> FilePipelines,
     shaders |-> FileShaders]

\* the data file loaded before the first compile
LoadedFiles ==
    {SceneFile(g) : g \in DependencyGraphs \cup ChainGraphs}
    \cup {DeferredFile(g) : g \in DeferredGraphs}
    \cup {EofViewFile, HyphenFile}

\* the orders in which a HashMap with the keys `keys` may iterate them
KeyOrders(keys) ==
    {s \in [1..Cardinality(keys) -> keys] : Range(s) = keys}

\* the orders in which the HashMaps that are the values of the map m may
\* iterate their keys: one order for each key of m
MapOrders(m) ==
    {orders \in [DOMAIN m -> UNION {KeyOrders(DOMAIN m[k]) : k \in DOMAIN m}] :
        \A k \in DOMAIN m : orders[k] \in KeyOrders(DOMAIN m[k])}

\* the orders in which the HashMaps of a data file iterate their keys
FileOrders(file) ==
    [graph_order : MapOrders(file.render_graphs),
     pipeline_order : MapOrders(file.pipelines)]

\* the shader files the build of a data file leaves beside it: those its
\* pipelines name and those it declares
FileShaderFiles(file) ==
    DOMAIN file.shaders
    \cup UNION {ShaderFiles(file.pipelines[p]) : p \in DOMAIN file.pipelines}

\* what a build leaves on disk for the data file `file` in `folder`: the json
\* file, and the shader files in the parent of the folder
BuildOutput(folder, file) ==
    [disk |-> [path \in {PathString(InfoFilepath(folder))} |->
                  [modified |-> 0, file |-> file]],
     shader_files |-> {ShaderPath(folder, name) : name \in FileShaderFiles(file)}]

\* the fields of Pmfx::create that load writes
Unloaded ==
    [pmfx |-> EmptyFile, graph_order |-> EmptyMap, pipeline_order |-> EmptyMap,
     pmfx_folders |-> EmptyMap, pmfx_tracking |-> EmptyMap, status |-> "run", log |-> <<>>]

\* the state after Pmfx::create and the load of the data file of LoadPath,
\* with one of `builds` on disk, on the device dev, with a swap chain of one
\* of `buffers` back buffers
LoadedFrom(builds, dev, buffers) ==
    /\ num_bb \in buffers
    /\ WithSwapChain(dev)
    /\ held = {}
    /\ now = 0
    /\ \E built \in builds :
          /\ disk = built.disk
          /\ shader_files = built.shader_files
          /\ \E orders \in FileOrders(built.disk[InfoPath].file) :
                \E s \in {load(Unloaded, LoadPath, built.disk, orders)} :
                   /\ pmfx = s.pmfx
                   /\ graph_order = s.graph_order
                   /\ pipeline_order = s.pipeline_order
                   /\ pmfx_folders = s.pmfx_folders
                   /\ pmfx_tracking = s.pmfx_tracking
    /\ PmfxCreate
    /\ pc = "idle"
    /\ result = "none"
    /\ overflow_checks \in BOOLEAN
    /\ NoHeap

\* the state after Pmfx::create and the load of one of `files`, on the device
\* dev, with a swap chain of one of `buffers` back buffers
LoadedOnDevice(files, dev, buffers) ==
    LoadedFrom({BuildOutput(LoadPath, file) : file \in files}, dev, buffers)

\* the state after Pmfx::create and the load of one of `files`, on a device
\* with heaps of heap_size descriptors
LoadedOn(files, heap_size) ==
    LoadedOnDevice(files, create_device(heap_size), {MaxBuffers})

Loaded(files) == LoadedOn(files, PmfxHeapSize)

Init == Loaded(LoadedFiles)

InitCycles == Loaded({SceneFile(g) : g \in CycleGraphs})

\* the fields of Pmfx and the locals of the running create_render_graph call
Engine ==
    [pmfx |-> pmfx, graph_order |-> graph_order, pipeline_order |-> pipeline_order,
     shader_files |-> shader_files, device |-> device,
     textures |-> textures, views |-> views, view_texture_refs |-> view_texture_refs,
     render_pipelines |-> render_pipelines, barriers |-> barriers,
     shaders |-> shaders, compute_pipelines |-> compute_pipelines,
     window_sizes |-> window_sizes, pmfx_folders |-> pmfx_folders,
     cameras |-> cameras,
     pmfx_tracking |-> pmfx_tracking,
     reloader |-> reloader,
     swap_chain |-> swap_chain,
     log |-> <<>>,
     render_graph_execute_order |-> render_graph_execute_order,
     active_render_graph |-> active_render_graph,
     graph_name |-> compile.graph_name, to_add |-> compile.to_add,
     added |-> compile.added, dependencies |-> compile.dependencies,
     texture_barriers |-> compile.texture_barriers,
     resolve_errors |-> compile.resolve_errors,
     status |-> "run"]

Install(s) ==
    /\ device' = s.device
    /\ textures' = s.textures
    /\ views' = s.views
    /\ view_texture_refs' = s.view_texture_refs
    /\ render_pipelines' = s.render_pipelines
    /\ shaders' = s.shaders
    /\ compute_pipelines' = s.compute_pipelines
    /\ barriers' = s.barriers
    /\ render_graph_execute_order' = s.render_graph_execute_order
    /\ active_render_graph' = s.active_render_graph
    /\ compile' = [graph_name |-> s.graph_name, to_add |-> s.to_add, added |-> s.added,
                   dependencies |-> s.dependencies,
                   texture_barriers |-> s.texture_barriers,
                   resolve_errors |-> s.resolve_errors]

\* where a call that ended with `status` leaves the caller
AfterCall(status, running) ==
    IF status = "run" THEN running
    ELSE IF status = "Err" THEN "idle"
    ELSE "panicked"

ResultOf(status, running) ==
    IF status = "run" THEN running
    ELSE IF status = "Err" THEN "Err"
    ELSE "none"

\* create_render_graph, up to the first test of `added < to_add`
BeginRenderGraph(graph_name) ==
    /\ pc = "idle"
    /\ \E s \in {GraphBegin(Engine, graph_name)} :
          /\ Install(s)
          /\ pc' = AfterCall(s.status, "compile")
          /\ result' = ResultOf(s.status, "none")
    /\ UNCHANGED <<num_bb, held, pmfx, graph_order, pipeline_order, submitted, overflow_checks,
                   window_sizes, pmfx_folders, shader_files, cameras, heap_vars, file_vars>>

CreateRenderGraph(graph_name) == BeginRenderGraph(graph_name) /\ UNCHANGED <<call, trace>>

\* one pass of `while added < to_add`
GraphPass ==
    /\ pc = "compile"
    /\ UsizeLess(compile.added, compile.to_add)
    /\ compile.to_add > -MaxWrapped
    /\ \E s \in {GraphPassOver(Engine, overflow_checks)} :
          /\ Install(s)
          /\ pc' = AfterCall(s.status, "compile")
          /\ result' = ResultOf(s.status, "none")
    /\ UNCHANGED <<num_bb, held, pmfx, graph_order, pipeline_order, submitted, overflow_checks, api_vars,
                   heap_vars>>

\* create_render_graph from the exit of the loop to its return
GraphFinish ==
    /\ pc = "compile"
    /\ ~UsizeLess(compile.added, compile.to_add)
    /\ \E srvs \in KeyOrders(DOMAIN compile.texture_barriers) :
          \E s \in {GraphEnd(Engine, srvs)} :
             /\ Install(s)
             /\ pc' = AfterCall(s.status, "idle")
             /\ result' = ResultOf(s.status, "Ok")
    /\ UNCHANGED <<num_bb, held, pmfx, graph_order, pipeline_order, submitted, overflow_checks, api_vars,
                   heap_vars>>

\* Pmfx::execute
Execute ==
    /\ pc = "idle"
    /\ submitted' = execute(Engine)
    /\ pc' = IF ExecutePanics(Engine) THEN "panicked" ELSE pc
    /\ UNCHANGED <<device, num_bb, held, pmfx, graph_order, pipeline_order, textures, views,
                   view_texture_refs, render_pipelines, barriers,
                   render_graph_execute_order, active_render_graph, compile, result,
                   overflow_checks, shaders, compute_pipelines, api_vars, heap_vars>>

Next ==
    \/ \E graph_name \in GraphNames : CreateRenderGraph(graph_name)
    \/ GraphPass
    \/ GraphFinish
    \/ Execute

Spec == Init /\ [][Next]_vars

\* the caller's thread keeps running: a started create_render_graph call takes
\* its next step
SpecFair ==
    InitCycles /\ [][Next]_vars /\ WF_vars(GraphPass) /\ WF_vars(GraphFinish)

----------------------------------------------------------------------------
(* Heap-level runs: a caller allocates and deallocates the descriptors of a *)
(* heap made by create_heap                                                 *)

InitHeap ==
    /\ num_bb = 1
    /\ WithSwapChain(create_device(1))
    /\ held = {}
    /\ pmfx = EmptyFile
    /\ graph_order = EmptyMap
    /\ pipeline_order = EmptyMap
    /\ pmfx_folders = EmptyMap
    /\ shader_files = {}
    /\ PmfxCreate
    /\ pc = "idle"
    /\ result = "none"
    /\ overflow_checks = FALSE
    /\ \E num_descriptors \in 0..HeapSlots :
          caller_heap = create_heap(ShaderHeapBase, ShaderIncrement, num_descriptors)
    /\ handle = NoHandle
    /\ live = {}
    /\ NoFiles

\* Heap::allocate
HeapAllocate ==
    /\ pc = "idle"
    /\ \E a \in {allocate(caller_heap)} :
          /\ caller_heap' = a.heap
          /\ handle' = [status |-> IF a.ok THEN "Ok" ELSE "panic", ptr |-> a.ptr]
          /\ pc' = IF a.ok THEN "idle" ELSE "panicked"
          /\ live' = IF a.ok THEN live \cup {get_handle_index(caller_heap, a.ptr)} ELSE live
    /\ UNCHANGED <<device, num_bb, held, pmfx_vars, result>>

\* <Heap as gfx::Heap>::deallocate, which takes any index
HeapDeallocate(index) ==
    /\ pc = "idle"
    /\ Len(caller_heap.free_list) < MaxFreeList
    /\ caller_heap' = deallocate(caller_heap, index)
    /\ live' = live \ {index}
    /\ UNCHANGED <<device, num_bb, held, pmfx_vars, pc, result, handle>>

\* the indices a caller passes to deallocate: the slots of the largest heap
\* and one index past them
DeallocatedIndices == 0..HeapSlots

NextHeap ==
    \/ HeapAllocate
    \/ \E index \in DeallocatedIndices : HeapDeallocate(index)

SpecHeap == InitHeap /\ [][NextHeap]_vars

\* <Heap as gfx::Heap>::deallocate of a slot the caller holds
HeapRelease(index) == index \in live /\ HeapDeallocate(index)

NextHeapLive ==
    \/ HeapAllocate
    \/ \E index \in DeallocatedIndices : HeapRelease(index)

\* a caller that deallocates only the slots it holds
SpecHeapLive == InitHeap /\ [][NextHeapLive]_vars

----------------------------------------------------------------------------
(* Interface runs: a caller creates textures, views and pipelines by name,  *)
(* looks objects up by name and compiles the render graphs of a data file   *)

\* a view over a texture the data file does not declare
BrokenView == [render_target |-> <<"undeclared_texture">>, depth_stencil |-> <<>>, hash |-> 10]

\* a pipeline of one compute permutation beside the two render permutations of
\* the mesh pipeline
CallsPipelines ==
    [p \in {"mesh", "blur"} |->
        IF p = "mesh" THEN FilePipelines["mesh"]
        ELSE [permutation \in {"0"} |->
                 [vs |-> {}, ps |-> {}, cs |-> {"cs_blur"}, vertex_layout |-> {},
                  hash |-> 11]]]

CallsShaders ==
    [s \in {"vs_mesh", "ps_mesh", "cs_blur"} |->
        IF s = "cs_blur" THEN 12 ELSE FileShaders[s]]

\* the pipelines a node of a graph may name
NodePipelineLists == {{}, {<<"mesh">>}, {<<"mesh", "blur">>}, {<<"undeclared">>}}

\* the overlay view, which draws over the colour target of the geometry view
OverlayView == [render_target |-> <<"albedo">>, depth_stencil |-> <<>>, hash |-> 7]

\* a data file: the geometry view, the overlay view and a view over an
\* undeclared texture; the graph "main" draws the geometry view, the graph
\* "post" the overlay view and the graph "debug" the view over the undeclared
\* texture
CallsFile(pipelines) ==
    [textures |-> [t \in {"albedo", "depth"} |->
                      IF t = "albedo" THEN ColourTexture(1) ELSE DepthTexture],
     views |-> [v \in {"gbuffer", "overlay", "broken"} |->
                   IF v = "gbuffer" THEN GbufferView
                   ELSE IF v = "overlay" THEN OverlayView
                   ELSE BrokenView],
     render_graphs |->
        [g \in {"main", "post", "debug"} |->
            IF g = "main"
            THEN [n \in {"n1"} |->
                     [view |-> "gbuffer", pipelines |-> pipelines, depends_on |-> {}]]
            ELSE IF g = "post"
            THEN [n \in {"m1"} |->
                     [view |-> "overlay", pipelines |-> {}, depends_on |-> {}]]
            ELSE [n \in {"d1"} |->
                     [view |-> "broken", pipelines |-> {}, depends_on |-> {}]]],
     pipelines |-> CallsPipelines,
     shaders |-> CallsShaders]

\* the names a caller passes to create_render_graph
CallsGraphNames == {"main", "post", "debug", "missing_graph"}

\* a release build: no node of the data file names a missing view, so the
\* checked decrement of a debug build is never reached
InitCalls == Loaded({CallsFile(pipelines) : pipelines \in NodePipelineLists}) /\ ~overflow_checks

\* the record of a call: `times` is 2 when the call before it was the same
\* call, `active` is the render graph that was active when create_render_graph
\* was called
Called(fn, args, status, value) ==
    [fn |-> fn, args |-> args, status |-> status, value |-> value,
     times |-> IF call.fn = fn /\ call.args = args THEN 2 ELSE 1,
     active |-> IF fn = "create_render_graph" THEN active_render_graph ELSE ""]

\* a call of a creation function that leaves the engine in state s
Created(s, fn, args) ==
    /\ Install(s)
    /\ call' = Called(fn, args, IF s.status = "run" THEN "Ok" ELSE s.status, {})
    /\ pc' = IF s.status = "panic" THEN "panicked" ELSE "idle"
    /\ UNCHANGED <<num_bb, held, pmfx, graph_order, pipeline_order, result, submitted, overflow_checks,
                   window_sizes, pmfx_folders, shader_files, cameras, heap_vars, frame_vars>>

\* a call of a lookup function that returns `found`
LookedUp(found, fn, args) ==
    /\ call' = Called(fn, args, found.status, found.value)
    /\ pc' = IF found.status = "panic" THEN "panicked" ELSE "idle"
    /\ UNCHANGED <<device, num_bb, held, pmfx, graph_order, pipeline_order, textures, views,
                   view_texture_refs, render_pipelines, barriers,
                   render_graph_execute_order, active_render_graph, compile, result,
                   submitted, overflow_checks, shaders, compute_pipelines, window_sizes,
                   pmfx_folders, shader_files, cameras, heap_vars, frame_vars>>

\* Pmfx::create_texture
CallCreateTexture(texture_name) ==
    /\ pc = "idle"
    /\ \E s \in {create_texture(Engine, texture_name)} :
          Created(s, "create_texture", <<texture_name>>)

\* Pmfx::create_view for a node of a render graph of the data file
CallCreateView(graph_name, graph_view_name) ==
    /\ pc = "idle"
    /\ graph_name \in DOMAIN pmfx.render_graphs
    /\ graph_view_name \in DOMAIN pmfx.render_graphs[graph_name]
    /\ \E info \in {pmfx.render_graphs[graph_name][graph_view_name]} :
          \E s \in {create_view(Engine, info.view, graph_view_name, info)} :
             Created(s, "create_view", <<info.view, graph_view_name>>)

\* Pmfx::create_pipeline with the pass of a live view
CallCreatePipeline(pipeline_name, graph_view_name) ==
    /\ pc = "idle"
    /\ graph_view_name \in DOMAIN views
    /\ \E pass \in {views[graph_view_name].pass} :
          \E s \in {create_pipeline(Engine, pipeline_name, pass)} :
             Created(s, "create_pipeline", <<pipeline_name, pass.format_hash>>)

\* Pmfx::create_render_graph, up to the first test of `added < to_add`
CallCreateRenderGraph(graph_name) ==
    /\ BeginRenderGraph(graph_name)
    /\ call' = Called("create_render_graph", <<graph_name>>, result', {})
    /\ trace' = <<>>

\* Pmfx::get_view
CallGetView(view_name) ==
    /\ pc = "idle"
    /\ LookedUp(get_view(Engine, view_name), "get_view", <<view_name>>)

\* Pmfx::update_camera_constants
CallUpdateCameraConstants(name) ==
    /\ pc = "idle"
    /\ cameras' = update_camera_constants(Engine, name, "constants").cameras
    /\ call' = Called("update_camera_constants", <<name>>, "Ok", {})
    /\ UNCHANGED <<device, num_bb, held, pmfx, graph_order, pipeline_order, textures, views,
                   view_texture_refs, render_pipelines, barriers,
                   render_graph_execute_order, active_render_graph, compile, pc, result,
                   submitted, overflow_checks, shaders, compute_pipelines, window_sizes,
                   pmfx_folders, shader_files, heap_vars, frame_vars>>

\* Pmfx::get_camera_constants
CallGetCameraConstants(name) ==
    /\ pc = "idle"
    /\ LookedUp(get_camera_constants(Engine, name), "get_camera_constants", <<name>>)

\* the format hashes a caller asks pipelines for: those of the live views and
\* one that no pass has
AskedFormats == {views[v].pass.format_hash : v \in DOMAIN views} \cup {<<>>}

\* Pmfx::get_render_pipeline_permutation_for_format
CallGetRenderPipeline(pipeline_name, permutation) ==
    /\ pc = "idle"
    /\ \E format_hash \in AskedFormats :
          LookedUp(get_render_pipeline_permutation_for_format(
                       Engine, pipeline_name, permutation, format_hash),
                   "get_render_pipeline_permutation_for_format",
                   <<pipeline_name, permutation, format_hash>>)

NextCalls ==
    \/ \E texture_name \in {"albedo", "depth", "undeclared_texture"} :
          CallCreateTexture(texture_name)
    \/ \E graph_name \in {"main", "post", "debug"} :
          \E graph_view_name \in {"n1", "m1", "d1"} :
             CallCreateView(graph_name, graph_view_name)
    \/ \E pipeline_name \in {"mesh", "blur", "undeclared"} :
          \E graph_view_name \in {"n1"} :
             CallCreatePipeline(pipeline_name, graph_view_name)
    \/ \E view_name \in {"n1", "gbuffer"} : CallGetView(view_name)
    \/ CallUpdateCameraConstants("main_camera")
    \/ \E name \in {"main_camera", "other_camera"} : CallGetCameraConstants(name)
    \/ \E pipeline_name \in {"mesh", "undeclared"} :
          \E permutation \in {0, 2} : CallGetRenderPipeline(pipeline_name, permutation)
    \/ \E graph_name \in CallsGraphNames : CallCreateRenderGraph(graph_name)
    \/ GraphPass
    \/ GraphFinish

SpecCalls == InitCalls /\ [][NextCalls]_vars

----------------------------------------------------------------------------
(* Window runs: a caller tracks the size of a window, compiles the render   *)
(* graphs of a data file with a window-ratio texture and resizes the window *)

\* the ratio scales of the data files, in halves: 0.5 and 1.0
RatioScales == {1, 2}

\* the sample counts of the ratio texture
RatioSamples == {1, 4}

\* a data file: the colour target is sized by the window "main"; the graph
\* "main" draws the geometry view, the graph "post" the overlay view over the
\* same colour target
ResizeFile(scale, samples) ==
    [textures |-> [t \in {"albedo", "depth"} |->
                      IF t = "albedo"
                      THEN [ColourTexture(samples) EXCEPT
                               !.ratio = {[window |-> "main", scale |-> scale]}]
                      ELSE DepthTexture],
     views |-> [v \in {"gbuffer", "overlay"} |->
                   IF v = "gbuffer" THEN GbufferView
                   ELSE [render_target |-> <<"albedo">>, depth_stencil |-> <<>>,
                         hash |-> 7]],
     render_graphs |->
        [g \in {"main", "post"} |->
            IF g = "main"
            THEN [n \in {"n1"} |->
                     [view |-> "gbuffer", pipelines |-> {<<"mesh">>}, depends_on |-> {}]]
            ELSE PostGraph],
     pipelines |-> FilePipelines,
     shaders |-> FileShaders]

InitResize ==
    LoadedOn({ResizeFile(scale, samples) : scale \in RatioScales, samples \in RatioSamples},
             LiveHeapSize)

\* the window sizes the caller reports
WindowSizes == {<<0, 0>>, <<800, 600>>, <<1600, 1200>>}

\* the windows of the caller
WindowNames == {"main", "debug"}

\* how a call that unwraps the results of its own calls ends
Ended(status) == IF status = "run" THEN "Ok" ELSE status

\* where a call that ended with `status` leaves the caller; a call that does
\* not return leaves it in the call
AfterReturn(status) ==
    IF status \in {"run", "Err"} THEN "idle"
    ELSE IF status = "hang" THEN "hung"
    ELSE "panicked"

\* Pmfx::update_window
CallUpdateWindow(size, name) ==
    /\ pc = "idle"
    /\ device.next_resource <= SwapChainResources + MaxRecreated
    /\ \E recreate \in KeyOrders(WindowTextures(Engine, size, name)) :
          \E srvs \in KeyOrders(DOMAIN SeedBarriers(pmfx)) :
             \E s \in {update_window(Engine, size, name, recreate, overflow_checks, srvs)} :
                /\ Install(s)
                /\ window_sizes' = s.window_sizes
                /\ call' = Called("update_window", <<size, name>>, Ended(s.status), {})
                /\ pc' = AfterReturn(s.status)
                /\ trace' = s.log
    /\ UNCHANGED <<num_bb, held, pmfx, graph_order, pipeline_order, result, submitted, overflow_checks,
                   pmfx_folders, shader_files, cameras, heap_vars, file_vars>>

NextResize ==
    \/ \E size \in WindowSizes : \E name \in WindowNames : CallUpdateWindow(size, name)
    \/ \E graph_name \in GraphNames : CallCreateRenderGraph(graph_name)
    \/ GraphPass
    \/ GraphFinish

SpecResize == InitResize /\ [][NextResize]_vars

----------------------------------------------------------------------------
(* Reload runs: a caller compiles the render graphs of a data file and       *)
(* reloads the file after it was built again                                 *)

\* a data file: the geometry view and the overlay view over the same colour
\* target; the graph "main" draws the geometry view with the mesh pipeline,
\* the graph "post" the overlay view
ReloadFile == [ResizeFile(2, 1) EXCEPT !.textures["albedo"] = ColourTexture(1)]

\* a release build
InitReload == LoadedOn({ReloadFile}, LiveHeapSize) /\ ~overflow_checks

\* the hash of an object whose source changed: the build gives one of two
\* hashes to an object
Rehashed(hash) == IF hash < 100 THEN hash + 100 ELSE hash - 100

\* the sources a build of the data file reads: the colour texture, the depth
\* texture, the geometry view, the vertex shader, the permutation "1" of the
\* mesh pipeline
Sources == {"albedo", "depth", "gbuffer", "vs_mesh", "mesh"}

\* the builds of the data file in a run
MaxBuilds == 2

\* what a new build of the data file may have changed: nothing or one source
Changes == {{}} \cup {{source} : source \in Sources}

\* the data file after a build in which the sources of `changes` changed
Rebuilt(file, changes) ==
    [file EXCEPT
        !.textures["albedo"].hash = IF "albedo" \in changes THEN Rehashed(@) ELSE @,
        !.textures["depth"].hash = IF "depth" \in changes THEN Rehashed(@) ELSE @,
        !.views["gbuffer"].hash = IF "gbuffer" \in changes THEN Rehashed(@) ELSE @,
        !.shaders["vs_mesh"] = IF "vs_mesh" \in changes THEN Rehashed(@) ELSE @,
        !.pipelines["mesh"]["1"].hash = IF "mesh" \in changes THEN Rehashed(@) ELSE @]

\* the build tool writes the data file again, with the sources of `changes`
\* changed; the watcher of the reloader sees the build
Build(changes) ==
    /\ pc = "idle"
    /\ now < MaxBuilds
    /\ now' = now + 1
    /\ disk' = [disk EXCEPT ![InfoPath] = [modified |-> now',
                                           file |-> Rebuilt(@.file, changes)]]
    /\ reloader' = "Available"
    /\ UNCHANGED <<device, num_bb, held, pmfx, graph_order, pipeline_order, textures, views,
                   view_texture_refs, render_pipelines, barriers,
                   render_graph_execute_order, active_render_graph, compile, pc, result,
                   submitted, overflow_checks, shaders, compute_pipelines, window_sizes,
                   pmfx_folders, shader_files, cameras, call, heap_vars, pmfx_tracking, swap_chain,
                   trace>>

\* the engine st once the file at `path` of the file system fs is merged into
\* the data model
MergedPath(st, fs, path) == [st EXCEPT !.pmfx = merge_pmfx(@, fs[path].file)]

\* the iteration orders reload may meet while it reloads the file at `path`:
\* of the HashMaps of the file, of reload_textures, of reload_pipelines and,
\* when the active render graph is compiled again, of the tracking map of the
\* compilation
PathChoices(st, fs, path, rebuild_graph) ==
    [orders : FileOrders(fs[path].file),
     reload_textures : KeyOrders(ReloadTextures(MergedPath(st, fs, path))),
     reload_pipelines : KeyOrders(ReloadPipelines(MergedPath(st, fs, path))),
     srvs : IF rebuild_graph \/ ReloadViews(MergedPath(st, fs, path)) # {}
            THEN KeyOrders(DOMAIN SeedBarriers(MergedPath(st, fs, path).pmfx))
            ELSE {<<>>}]

\* the iteration orders reload may meet from the i-th of reload_paths on: those
\* of a file are met in the state the files before it left
RECURSIVE ReloadChoices(_, _, _, _, _, _, _)
ReloadChoices(st, fs, time, reload_paths, i, rebuild_graph, checks) ==
    IF i > Len(reload_paths) \/ st.status # "run" THEN {<<>>}
    ELSE IF i = Len(reload_paths)
    THEN {<<c>> : c \in PathChoices(st, fs, reload_paths[i], rebuild_graph)}
    ELSE UNION {{<<c>> \o rest :
                    rest \in ReloadChoices(
                        ReloadFrom(MergedFile(st, fs[reload_paths[i]].file, c.orders),
                                   reload_paths[i], time, c.reload_textures,
                                   c.reload_pipelines, rebuild_graph, checks, c.srvs),
                        fs, time, reload_paths, i + 1,
                        rebuild_graph
                            \/ ReloadViews(MergedPath(st, fs, reload_paths[i])) # {},
                        checks)} :
                c \in PathChoices(st, fs, reload_paths[i], rebuild_graph)}

\* the orders in which reload may meet the files it selects; no file when the
\* call does not reload
SelectedPaths(reloads) ==
    IF reloads THEN KeyOrders(ReloadPaths(Engine, disk)) ELSE {<<>>}

\* the keys of self.views that reset may meet in the execution order, which
\* view_order lists in the iteration order of the HashMap: the views of the
\* execution order and, when a reload may compile the active graph again, the
\* nodes of that graph in the data model and in the files reload selects
ResetKeys ==
    (DOMAIN views \cap Range(render_graph_execute_order))
    \cup (IF reloader = "Available"
          THEN UNION {DOMAIN graphs[active_render_graph] :
                         graphs \in {g \in {pmfx.render_graphs}
                                            \cup {disk[path].file.render_graphs :
                                                     path \in ReloadPaths(Engine, disk)} :
                                        active_render_graph \in DOMAIN g}}
          ELSE {})

\* what a call that reloads leaves behind in Pmfx and on the device
ReloadedEngine(s, fn, args) ==
    /\ Install(s)
    /\ pmfx' = s.pmfx
    /\ pmfx_tracking' = s.pmfx_tracking
    /\ trace' = s.log
    /\ call' = Called(fn, args, Ended(s.status), {})
    /\ pc' = AfterReturn(s.status)
    /\ graph_order' = s.graph_order
    /\ pipeline_order' = s.pipeline_order
    /\ UNCHANGED <<num_bb, held, result, submitted, overflow_checks, window_sizes,
                   pmfx_folders, shader_files, cameras, heap_vars, swap_chain>>

\* what a call that reloads leaves behind when no build lands while it runs
Reloaded(s, fn, args) ==
    /\ ReloadedEngine(s, fn, args)
    /\ reloader' = s.reloader
    /\ UNCHANGED <<disk, now>>

\* Pmfx::reload
CallReload ==
    /\ pc = "idle"
    /\ device.next_resource <= SwapChainResources + MaxRecreated
    /\ device.next_pipeline <= MaxRecreated
    /\ \E reload_paths \in SelectedPaths(TRUE) :
          \E choices \in ReloadChoices(Engine, disk, now, reload_paths, 1, FALSE,
                                       overflow_checks) :
             Reloaded(reload(Engine, disk, now, reload_paths, choices, overflow_checks),
                      "reload", <<ReloadPaths(Engine, disk)>>)

\* Pmfx::new_frame
CallNewFrame ==
    /\ pc = "idle"
    /\ device.next_resource <= SwapChainResources + MaxRecreated
    /\ device.next_pipeline <= MaxRecreated
    /\ \E reload_paths \in SelectedPaths(reloader = "Available") :
          \E choices \in ReloadChoices(Engine, disk, now, reload_paths, 1, FALSE,
                                       overflow_checks) :
             \E view_order \in KeyOrders(ResetKeys) :
                Reloaded(new_frame(Engine, disk, now, reload_paths, choices,
                                   overflow_checks, view_order),
                         "new_frame", <<reloader>>)

\* Pmfx::reset
CallReset ==
    /\ pc = "idle"
    /\ \E view_order \in KeyOrders(ResetViews(Engine)) :
          Reloaded(reset(Engine, view_order), "reset", <<>>)

\* Pmfx::new_frame while the build tool writes the data file again: new_frame
\* holds no lock between check_for_reload and complete_reload, and the build
\* lands after reload looked at the file.  The reload works on the file as it
\* was; it stamps the tracking entry before the build (stamp = now) or after
\* it (stamp = now + 1); the watcher flags the build before complete_reload
\* clears the flag, or after it.
CallNewFrameDuringBuild(changes) ==
    /\ pc = "idle"
    /\ reloader = "Available"
    /\ now < MaxBuilds
    /\ device.next_resource <= SwapChainResources + MaxRecreated
    /\ device.next_pipeline <= MaxRecreated
    /\ now' = now + 1
    /\ disk' = [disk EXCEPT ![InfoPath] = [modified |-> now',
                                           file |-> Rebuilt(@.file, changes)]]
    /\ \E stamp \in {now, now + 1}, reload_paths \in SelectedPaths(TRUE) :
          \E choices \in ReloadChoices(Engine, disk, stamp, reload_paths, 1, FALSE,
                                       overflow_checks) :
             \E view_order \in KeyOrders(ResetKeys) :
                \E s \in {new_frame(Engine, disk, stamp, reload_paths, choices,
                                    overflow_checks, view_order)} :
                   /\ ReloadedEngine(s, "new_frame", <<reloader>>)
                   /\ reloader' \in IF s.status = "run" THEN {"Unchanged", "Available"}
                                    ELSE {"Available"}

\* Pmfx::load of the data file of `folder`
CallLoad(folder) ==
    /\ pc = "idle"
    /\ \E orders \in IF PathString(InfoFilepath(folder)) \in DOMAIN disk
                     THEN FileOrders(disk[PathString(InfoFilepath(folder))].file)
                     ELSE FileOrders(EmptyFile) :
          \E s \in {load(Engine, folder, disk, orders)} :
             /\ pmfx' = s.pmfx
             /\ graph_order' = s.graph_order
             /\ pipeline_order' = s.pipeline_order
             /\ pmfx_folders' = s.pmfx_folders
             /\ pmfx_tracking' = s.pmfx_tracking
             /\ trace' = s.log
             /\ call' = Called("load", <<PathString(folder)>>, Ended(s.status), {})
    /\ UNCHANGED <<device, num_bb, held, textures, views, view_texture_refs,
                   render_pipelines, barriers, render_graph_execute_order,
                   active_render_graph, compile, pc, result, submitted, overflow_checks,
                   shaders, compute_pipelines, window_sizes, shader_files, cameras,
                   heap_vars, disk, now, reloader, swap_chain>>

NextReload ==
    \/ \E changes \in Changes : Build(changes)
    \/ CallReload
    \/ CallNewFrame
    \/ \E changes \in Changes : CallNewFrameDuringBuild(changes)
    \/ \E graph_name \in GraphNames : CallCreateRenderGraph(graph_name)
    \/ GraphPass
    \/ GraphFinish

SpecReload == InitReload /\ [][NextReload]_vars
----------------------------------------------------------------------------
(* Usage runs: a caller compiles the render graphs of data files whose       *)
(* textures declare different usages                                         *)

\* the declared usages of a colour target: read by shaders or only rendered to
ColourUsages == {{"ShaderResource", "RenderTarget"}, {"RenderTarget"}}

\* the declared usages of a depth target
DepthUsages == {{"ShaderResource", "DepthStencil"}, {"DepthStencil"}}

\* a data file: the colour and depth targets of the geometry view with the
\* given usages, a lookup texture that is only read by shaders and a texture
\* that is only written by compute shaders
UsageFile(colour_usage, depth_usage) ==
    [ReloadFile EXCEPT
        !.textures =
            [t \in {"albedo", "depth", "lut", "scratch"} |->
                IF t = "albedo" THEN [ColourTexture(1) EXCEPT !.usage = colour_usage]
                ELSE IF t = "depth" THEN [DepthTexture EXCEPT !.usage = depth_usage]
                ELSE IF t = "lut"
                THEN [ColourTexture(1) EXCEPT !.usage = {"ShaderResource"}, !.hash = 8]
                ELSE [ColourTexture(1) EXCEPT !.usage = {"UnorderedAccess"}, !.hash = 9]]]

InitUsage ==
    LoadedOn({UsageFile(c, d) : c \in ColourUsages, d \in DepthUsages}, LiveHeapSize)

SpecUsage == InitUsage /\ [][Next]_vars

----------------------------------------------------------------------------
(* Barrier names: data files whose view and texture names meet in the       *)
(* format strings of the barrier names                                      *)

InitNames ==
    Loaded({EofViewFile, HyphenFile} \cup {DeferredFile(g) : g \in DeferredGraphs})

SpecNames == InitNames /\ [][Next]_vars

----------------------------------------------------------------------------
(* Empty depends_on: render graphs whose nodes carry `"depends_on": []`      *)

\* depends_on of a node: absent, present and empty, or the node before it
DependsOnOrEmpty(node, nodes) == {{<<>>}} \cup DependsOnPrevious(node, nodes)

\* graphs of one to three nodes over the geometry view
EmptyDependsOnGraphs ==
    UNION {
        LET nodes == Range(Prefix(NodeNames, k))
        IN {g \in [nodes -> [view : {"gbuffer"},
                             pipelines : {{}},
                             depends_on : UNION {DependsOnOrEmpty(n, nodes) : n \in nodes}]] :
                \A n \in nodes : g[n].depends_on \in DependsOnOrEmpty(n, nodes)}
        : k \in 1..3}

InitEmptyDependsOn == Loaded({SceneFile(g) : g \in EmptyDependsOnGraphs})

\* the caller's thread keeps running: a started create_render_graph call takes
\* its next step
SpecEmptyFair ==
    InitEmptyDependsOn /\ [][Next]_vars /\ WF_vars(GraphPass) /\ WF_vars(GraphFinish)

----------------------------------------------------------------------------
(* Live-object runs: a caller creates textures and views by name, compiles  *)
(* render graphs, resizes the window and reloads the data file               *)

\* a data file: the colour target of the geometry view is sized by the window
\* "main"; the overlay view draws to a texture of its own; the graph "main"
\* draws the geometry view, the graph "post" the overlay view
LiveFile(samples) ==
    [textures |-> [t \in {"albedo", "ui"} |->
                      IF t = "albedo"
                      THEN [ColourTexture(samples) EXCEPT
                               !.ratio = {[window |-> "main", scale |-> 2]}]
                      ELSE [ColourTexture(1) EXCEPT !.hash = 14]],
     views |-> [v \in {"gbuffer", "overlay"} |->
                   IF v = "gbuffer"
                   THEN [render_target |-> <<"albedo">>, depth_stencil |-> <<>>, hash |-> 3]
                   ELSE [render_target |-> <<"ui">>, depth_stencil |-> <<>>, hash |-> 7]],
     render_graphs |->
        [g \in {"main", "post"} |->
            IF g = "main"
            THEN [n \in {"n1"} |->
                     [view |-> "gbuffer", pipelines |-> {<<"mesh">>}, depends_on |-> {}]]
            ELSE PostGraph],
     pipelines |-> FilePipelines,
     shaders |-> FileShaders]

\* a release build
InitLive ==
    LoadedOn({LiveFile(samples) : samples \in RatioSamples}, LiveHeapSize) /\ ~overflow_checks

\* the data file after a build in which the textures of `changes` changed
RebuiltTextures(file, changes) ==
    [file EXCEPT !.textures =
        [t \in DOMAIN @ |-> IF t \in changes THEN [@[t] EXCEPT !.hash = Rehashed(@)]
                                             ELSE @[t]]]

\* the build tool writes the data file at `path` again as `file`; the watcher
\* of the reloader sees the build
BuildAs(path, file) ==
    /\ pc = "idle"
    /\ now < MaxBuilds
    /\ now' = now + 1
    /\ disk' = [disk EXCEPT ![path] = [modified |-> now', file |-> file]]
    /\ reloader' = "Available"
    /\ UNCHANGED <<device, num_bb, held, pmfx, graph_order, pipeline_order, textures, views,
                   view_texture_refs, render_pipelines, barriers,
                   render_graph_execute_order, active_render_graph, compile, pc, result,
                   submitted, overflow_checks, shaders, compute_pipelines, window_sizes,
                   pmfx_folders, shader_files, cameras, call, heap_vars, pmfx_tracking, swap_chain,
                   trace>>

\* a build in which the textures of `changes` changed
BuildTextures(changes) == BuildAs(InfoPath, RebuiltTextures(disk[InfoPath].file, changes))

\* Pmfx::create_render_graph_views
CallCreateRenderGraphViews(graph_name) ==
    /\ pc = "idle"
    /\ graph_name \in DOMAIN pmfx.render_graphs
    /\ \E s \in {create_render_graph_views(Engine, graph_name)} :
          Created(s, "create_render_graph_views", <<graph_name>>)

NextLive ==
    \/ \E size \in {<<800, 600>>, <<1600, 1200>>} : CallUpdateWindow(size, "main")
    \/ \E changes \in {{"albedo"}} : BuildTextures(changes)
    \/ CallReload
    \/ CallCreateTexture("albedo")
    \/ \E graph_name \in {"main", "post"} : CallCreateRenderGraphViews(graph_name)
    \/ \E graph_name \in {"main", "post"} : CallCreateRenderGraph(graph_name)
    \/ GraphPass
    \/ GraphFinish

SpecLive == InitLive /\ [][NextLive]_vars

----------------------------------------------------------------------------
(* Compute reload runs: a caller compiles a render graph whose node names a *)
(* render pipeline and a compute pipeline, and reloads the data file         *)

\* a data file: the node of the graph "main" names the mesh pipeline and the
\* compute pipeline "blur"
ComputeFile ==
    [ReloadFile EXCEPT !.pipelines = CallsPipelines,
                       !.shaders = CallsShaders,
                       !.render_graphs["main"]["n1"].pipelines = {<<"mesh", "blur">>}]

\* the folder of a second data file
ExtraPath == <<"plugins", "extra">>

\* the path of the json file of the second data file
ExtraInfoPath == PathString(InfoFilepath(ExtraPath))

\* a second data file: the view "hud" over a render target of its own that no
\* shader reads, drawn by the graph "hud" with the pipeline "sprite"
ExtraFile ==
    [textures |-> [t \in {"ui"} |->
                      [ColourTexture(1) EXCEPT !.usage = {"RenderTarget"}, !.hash = 14]],
     views |-> [v \in {"hud"} |->
                   [render_target |-> <<"ui">>, depth_stencil |-> <<>>, hash |-> 15]],
     render_graphs |->
        [g \in {"hud"} |->
            [n \in {"h1"} |->
                [view |-> "hud", pipelines |-> {<<"sprite">>}, depends_on |-> {}]]],
     pipelines |->
        [p \in {"sprite"} |->
            [permutation \in {"0"} |->
                [vs |-> {"vs_sprite"}, ps |-> {"ps_sprite"}, cs |-> {},
                 vertex_layout |-> {"position"}, hash |-> 16]]],
     shaders |-> [s \in {"vs_sprite", "ps_sprite"} |-> IF s = "vs_sprite" THEN 17 ELSE 18]]

\* the builds of the two data files on disk
ComputeBuilt ==
    [disk |-> Extend(BuildOutput(LoadPath, ComputeFile).disk,
                     BuildOutput(ExtraPath, ExtraFile).disk),
     shader_files |-> BuildOutput(LoadPath, ComputeFile).shader_files
                      \cup BuildOutput(ExtraPath, ExtraFile).shader_files]

\* a release build, with the first data file loaded
InitCompute ==
    /\ LoadedFrom({ComputeBuilt}, create_device(LiveHeapSize), {MaxBuffers})
    /\ ~overflow_checks

\* the data file after a build in which every permutation of the pipelines
\* of `changes` changed
RebuiltPipelines(file, changes) ==
    [file EXCEPT !.pipelines =
        [name \in DOMAIN @ |->
            [p \in DOMAIN @[name] |->
                IF name \in changes THEN [@[name][p] EXCEPT !.hash = Rehashed(@)]
                ELSE @[name][p]]]]

\* a build of the data file at `path` in which the pipelines of `changes`
\* changed
BuildPipelines(path, changes) == BuildAs(path, RebuiltPipelines(disk[path].file, changes))

\* a build of the first data file in which the geometry view changed
BuildView == BuildAs(InfoPath, Rebuilt(disk[InfoPath].file, {"gbuffer"}))

\* the folders a caller loads: the folder loaded at the start, the folder of
\* the second data file and a folder with no data file
LoadFolders == {LoadPath, ExtraPath, <<"data", "missing">>}

NextCompute ==
    \/ BuildPipelines(InfoPath, {"blur"})
    \/ BuildPipelines(ExtraInfoPath, {"sprite"})
    \/ BuildView
    \/ \E folder \in LoadFolders : CallLoad(folder)
    \/ CallReload
    \/ \E graph_name \in {"main", "hud"} : CallCreateRenderGraph(graph_name)
    \/ GraphPass
    \/ GraphFinish

SpecCompute == InitCompute /\ [][NextCompute]_vars

----------------------------------------------------------------------------
(* Pipeline failures: a caller creates views and pipelines on a device that *)
(* refuses the pipeline states of one pipeline                               *)

\* the permutations the device refuses in a run
RejectedPipelines ==
    {{<<"mesh", "0">>}, {<<"mesh", "1">>}, {<<"mesh", "0">>, <<"mesh", "1">>},
     {<<"blur", "0">>}}

InitRejects ==
    \E rejected \in RejectedPipelines :
        LoadedOnDevice({CallsFile(pipelines) : pipelines \in NodePipelineLists},
                       [create_device(PmfxHeapSize) EXCEPT !.rejected = rejected],
                       {MaxBuffers})

NextRejects ==
    \/ \E graph_view_name \in {"n1"} : CallCreateView("main", graph_view_name)
    \/ \E pipeline_name \in {"mesh", "blur", "undeclared"} :
          CallCreatePipeline(pipeline_name, "n1")
    \/ \E pipeline_name \in {"mesh", "blur"} :
          \E permutation \in 0..1 : CallGetRenderPipeline(pipeline_name, permutation)
    \/ \E graph_name \in {"main", "post"} : CallCreateRenderGraph(graph_name)
    \/ GraphPass
    \/ GraphFinish

SpecRejects == InitRejects /\ [][NextRejects]_vars

----------------------------------------------------------------------------
(* Frame runs: a caller compiles a render graph and then runs frames on a    *)
(* swap chain: new_frame, reset, execute, swap                               *)

\* the most back buffers of a swap chain
MaxSwapBuffers == 3

\* the swaps of a run
MaxSwaps == 5

\* the back buffers a swap chain is created with: double buffered and more
SwapBuffers == 2..MaxSwapBuffers

\* a release build, on a swap chain of two or more back buffers
InitFrames ==
    /\ LoadedOnDevice({ReloadFile}, create_device(LiveHeapSize), SwapBuffers)
    /\ ~overflow_checks

\* SwapChain::swap at the end of a frame
Swap ==
    /\ pc = "idle"
    /\ swap_chain.fence_last_signalled_value < MaxSwaps
    /\ swap_chain' = swap(swap_chain)
    /\ UNCHANGED <<device, num_bb, held, pmfx, graph_order, pipeline_order, textures, views,
                   view_texture_refs, render_pipelines, barriers,
                   render_graph_execute_order, active_render_graph, compile, pc, result,
                   submitted, overflow_checks, shaders, compute_pipelines, window_sizes,
                   pmfx_folders, shader_files, cameras, call, heap_vars, pmfx_tracking, disk, now,
                   reloader, trace>>

NextFrames ==
    \/ Swap
    \/ UpdateSwapChain(ResizedTo)
    \/ CallNewFrame
    \/ CallReset
    \/ Execute
    \/ \E graph_name \in GraphNames : CallCreateRenderGraph(graph_name)
    \/ GraphPass
    \/ GraphFinish

SpecFrames == InitFrames /\ [][NextFrames]_vars

----------------------------------------------------------------------------
(* The compiled execution order *)

\* the render graph of the create_render_graph call that last wrote the order
CompiledGraph == pmfx.render_graphs[compile.graph_name]

\* create_render_graph has returned Ok
Returned == pc = "idle" /\ result = "Ok"

PositionsOf(order, name) == {i \in 1..Len(order) : order[i] = name}

\* the entries of a node's depends_on (none when it is absent)
DependsOnEntries(instance) ==
    IF instance.depends_on = {} THEN {}
    ELSE Range(CHOOSE d \in instance.depends_on : TRUE)

InGraphDependencies(graph, n) == DependsOnEntries(graph[n]) \cap DOMAIN graph

ViewDeclared(instance) == instance.view \in DOMAIN pmfx.views

\* the textures the view of a node renders to
WrittenBy(graph, n) ==
    Range(pmfx.views[graph[n].view].render_target)
    \cup Range(pmfx.views[graph[n].view].depth_stencil)

\* the state a barrier command buffer leaves the texture's main resource in
MainAfter(barrier) == barrier.cmds[1].after

\* the state a barrier command buffer was asked to reach
RequiredState(barrier) == Last(barrier.cmds).after

\* entry i of the order is a barrier command buffer moving texture t (its main
\* or its resolve resource) to `state`
IsBarrierTo(i, t, state) ==
    /\ render_graph_execute_order[i] \in DOMAIN barriers
    /\ barriers[render_graph_execute_order[i]].texture = t
    /\ \E k \in DOMAIN barriers[render_graph_execute_order[i]].cmds :
          LET cmd == barriers[render_graph_execute_order[i]].cmds[k]
          IN cmd.op = "transition" /\ cmd.after = state

\* the state of the main resource of texture t once entries 1..i of the order
\* have executed, every frame starting with the tracked textures in ShaderResource
RECURSIVE ReplayState(_, _)
ReplayState(t, i) ==
    IF i = 0 THEN "ShaderResource"
    ELSE IF /\ render_graph_execute_order[i] \in DOMAIN barriers
            /\ barriers[render_graph_execute_order[i]].texture = t
         THEN MainAfter(barriers[render_graph_execute_order[i]])
         ELSE ReplayState(t, i - 1)

----------------------------------------------------------------------------
\* C1: in the execution order, every in-graph dependency D of a scheduled node N,
\* at any position of N's depends_on list, appears before N.
\* Violated: only the last entry of depends_on decides whether N is scheduled.
C1_DependenciesFirst ==
    \A i \in 1..Len(render_graph_execute_order) :
        render_graph_execute_order[i] \in DOMAIN CompiledGraph =>
            \A d \in InGraphDependencies(CompiledGraph, render_graph_execute_order[i]) :
                \E j \in 1..(i - 1) : render_graph_execute_order[j] = d

----------------------------------------------------------------------------
\* the nodes that can be scheduled: declared view, and in-graph dependencies
\* that can all be scheduled
RECURSIVE Addable(_, _)
Addable(graph, known) ==
    LET more == {n \in DOMAIN graph :
                    ViewDeclared(graph[n]) /\ InGraphDependencies(graph, n) \subseteq known}
    IN IF more = known THEN known ELSE Addable(graph, more)

MissingViewNodes(graph) == {n \in DOMAIN graph : ~ViewDeclared(graph[n])}

\* C2: when create_render_graph returns, every addable node appears exactly once
\* in the execution order, whatever the number of nodes with missing views and of
\* passes; a node with a missing view is discounted once and never appears.
\* Violated: a missing view is discounted again on every pass of the loop.
C2_AddableScheduled ==
    Returned =>
        /\ \A n \in Addable(CompiledGraph, {}) :
              Cardinality(PositionsOf(render_graph_execute_order, n)) = 1
        /\ \A n \in MissingViewNodes(CompiledGraph) :
              PositionsOf(render_graph_execute_order, n) = {}
        /\ compile.to_add = Cardinality(DOMAIN CompiledGraph)
                            - Cardinality(MissingViewNodes(CompiledGraph))

----------------------------------------------------------------------------
\* node b takes texture t as a shader-resource input from node a: b depends on
\* a, a renders to t, t is declared for shader-resource use and b does not
\* render to it
ShaderInput(graph, a, b, t) ==
    /\ a \in DependsOnEntries(graph[b])
    /\ t \in Range(pmfx.views[graph[a].view].render_target)
    /\ "ShaderResource" \in pmfx.textures[t].usage
    /\ t \notin WrittenBy(graph, b)

\* the position of the last node before position b that renders to t
LastWriter(graph, t, b) ==
    CHOOSE i \in 1..(b - 1) :
        /\ render_graph_execute_order[i] \in DOMAIN graph
        /\ t \in WrittenBy(graph, render_graph_execute_order[i])
        /\ \A j \in (i + 1)..(b - 1) :
              ~(/\ render_graph_execute_order[j] \in DOMAIN graph
                /\ t \in WrittenBy(graph, render_graph_execute_order[j]))

\* C3: for a texture that is a render target of node A and a shader-resource
\* input of node B, A before B, the order has a transition to RenderTarget
\* before A and a transition to ShaderResource after the last writer and before B.
\* Violated: transitions to ShaderResource are only emitted after the last node.
C3_ReadAfterWrite ==
    Returned =>
        \A a, b \in 1..Len(render_graph_execute_order) :
            (/\ a < b
             /\ render_graph_execute_order[a] \in DOMAIN CompiledGraph
             /\ render_graph_execute_order[b] \in DOMAIN CompiledGraph) =>
                \A t \in DOMAIN pmfx.textures :
                    ShaderInput(CompiledGraph, render_graph_execute_order[a],
                                render_graph_execute_order[b], t) =>
                        /\ \E i \in 1..(a - 1) : IsBarrierTo(i, t, "RenderTarget")
                        /\ \E i \in (LastWriter(CompiledGraph, t, b) + 1)..(b - 1) :
                              IsBarrierTo(i, t, "ShaderResource")

----------------------------------------------------------------------------
\* C4: a barrier (plain or resolve) is emitted for a texture only when its
\* tracked state differs from the state required at that point, and no two
\* consecutive barriers of a texture move it to the same state.
\* Violated: the end-of-frame resolve is emitted whatever the tracked state.
C4_BarrierMinimality ==
    /\ \A name \in DOMAIN barriers :
          barriers[name].cmds[1].before # RequiredState(barriers[name])
    /\ \A i, j \in 1..Len(render_graph_execute_order) :
          (/\ i < j
           /\ render_graph_execute_order[i] \in DOMAIN barriers
           /\ render_graph_execute_order[j] \in DOMAIN barriers
           /\ barriers[render_graph_execute_order[i]].texture
                = barriers[render_graph_execute_order[j]].texture
           /\ \A k \in (i + 1)..(j - 1) :
                 ~(/\ render_graph_execute_order[k] \in DOMAIN barriers
                   /\ barriers[render_graph_execute_order[k]].texture
                        = barriers[render_graph_execute_order[i]].texture)) =>
              MainAfter(barriers[render_graph_execute_order[i]])
                # MainAfter(barriers[render_graph_execute_order[j]])

----------------------------------------------------------------------------
\* C5: create_render_graph terminates for every render graph, cycles of
\* depends_on included: a started call returns.
\* Violated: a pass that schedules nothing and discounts nothing repeats forever.
C5_Terminates == (pc = "compile") ~> (pc # "compile")

----------------------------------------------------------------------------
\* node n of the running compile is not scheduled yet, names a node the graph
\* does not have, and every node of the graph it names is scheduled
MissingEntryOnly(graph, n) ==
    /\ ViewDeclared(graph[n])
    /\ n \notin compile.dependencies
    /\ DependsOnEntries(graph[n]) \ DOMAIN graph # {}
    /\ InGraphDependencies(graph, n) \subseteq compile.dependencies

\* every node has a declared view and declared pipelines, and depends_on lists
\* (where present) that name only nodes the graph does not have
OnlyMissingDependencies(graph) ==
    /\ \E n \in DOMAIN graph : DependsOnEntries(graph[n]) # {}
    /\ \A n \in DOMAIN graph :
          /\ ViewDeclared(graph[n])
          /\ \A p \in graph[n].pipelines : Range(p) \subseteq DOMAIN pmfx.pipelines
          /\ graph[n].depends_on # {<<>>}
          /\ InGraphDependencies(graph, n) = {}

\* a pass that runs to its end schedules every node held back by nothing but
\* an entry naming a missing node
C6_PassSchedules ==
    (pc = "compile" /\ UsizeLess(compile.added, compile.to_add) /\ pc' = "compile") =>
        \A n \in DOMAIN CompiledGraph :
            MissingEntryOnly(CompiledGraph, n) =>
                /\ n \in compile'.dependencies
                /\ Cardinality(PositionsOf(render_graph_execute_order', n)) = 1

\* a graph whose depends_on entries all name missing nodes is scheduled in full
\* by one pass, and the call then returns Ok
C6_CompletesOk ==
    (pc = "compile" /\ OnlyMissingDependencies(CompiledGraph)) =>
        IF UsizeLess(compile.added, compile.to_add)
        THEN /\ pc' = "compile"
             /\ compile'.added = compile'.to_add
             /\ compile'.dependencies = DOMAIN CompiledGraph
        ELSE /\ pc' = "idle"
             /\ result' = "Ok"
             /\ \A n \in DOMAIN CompiledGraph :
                   Cardinality(PositionsOf(render_graph_execute_order', n)) = 1

\* C6: a depends_on entry naming no node of the graph never blocks scheduling:
\* the node is scheduled as soon as the nodes of the graph it names are, and a
\* graph whose entries all name missing nodes compiles to Ok with every node
\* scheduled.
C6_MissingDependencyIgnored == [][C6_PassSchedules /\ C6_CompletesOk]_vars

C6_Witness ==
    /\ Returned
    /\ \E n \in DOMAIN CompiledGraph :
          /\ "missing_node" \in DependsOnEntries(CompiledGraph[n])
          /\ InGraphDependencies(CompiledGraph, n) # {}
          /\ PositionsOf(render_graph_execute_order, n) # {}
    /\ \E n \in DOMAIN CompiledGraph :
          /\ DependsOnEntries(CompiledGraph[n]) = {"missing_node"}
          /\ PositionsOf(render_graph_execute_order, n) # {}

----------------------------------------------------------------------------
\* C7: replaying the barriers of the execution order, at the position of every
\* view node each tracked render target of its view is in RenderTarget and each
\* tracked depth-stencil target in DepthStencil.
C7_BarriersPrecedeViews ==
    \A i \in 1..Len(render_graph_execute_order) :
        render_graph_execute_order[i] \in DOMAIN CompiledGraph =>
            LET view == pmfx.views[CompiledGraph[render_graph_execute_order[i]].view]
            IN /\ \A t \in Range(view.render_target) :
                     t \in DOMAIN compile.texture_barriers =>
                         ReplayState(t, i - 1) = "RenderTarget"
               /\ \A t \in Range(view.depth_stencil) :
                     t \in DOMAIN compile.texture_barriers =>
                         ReplayState(t, i - 1) = "DepthStencil"

----------------------------------------------------------------------------
\* the entries of the order that name a command buffer
Submittable(order) ==
    SelectSeq(order, LAMBDA node : node \in DOMAIN barriers \cup DOMAIN views)

IsExecute(c) == c.op = "execute"

\* the calls of one execute: the command buffers are submitted in the compiled
\* order, each entry once; a view's command buffer is closed just before it is
\* submitted, a barrier's is not closed
InCompiledOrder(calls) ==
    LET executes == SelectSeq(calls, IsExecute)
        entries == Submittable(render_graph_execute_order)
    IN /\ Len(executes) = Len(entries)
       /\ \A k \in 1..Len(entries) :
             /\ executes[k].cmd = entries[k]
             /\ executes[k].kind =
                   IF entries[k] \in DOMAIN barriers THEN "barrier" ELSE "view"
       /\ \A k \in 1..Len(calls) :
             /\ (calls[k].op = "execute" /\ calls[k].kind = "view") =>
                   (k > 1 /\ calls[k - 1] = [calls[k] EXCEPT !.op = "close"])
             /\ calls[k].op = "close" =>
                   (/\ calls[k].kind = "view"
                    /\ k < Len(calls)
                    /\ calls[k + 1] = [calls[k] EXCEPT !.op = "execute"])

\* C8: execute submits the command buffers in exactly the compiled execution
\* order: a barrier entry submits the barrier's command buffer, a view entry
\* closes the view's command buffer and then submits it, each entry at most once.
C8_ExecuteInOrder == [][submitted' # submitted => InCompiledOrder(submitted')]_vars

C8_Witness ==
    /\ Returned
    /\ InCompiledOrder(submitted)
    /\ \E i, j, k \in 1..Len(submitted) :
          /\ i < j /\ j < k
          /\ submitted[i].kind = "barrier"
          /\ submitted[j].kind = "view" /\ submitted[j].op = "close"
          /\ submitted[k].kind = "barrier"
    /\ Len(SelectSeq(submitted, IsExecute)) < Len(render_graph_execute_order)

----------------------------------------------------------------------------
(* C17: end-of-frame transitions of textures that cannot be resolved *)

\* the step from the exit of the scheduling loop to the return of
\* create_render_graph
EndOfFrameStep == pc = "compile" /\ ~(UsizeLess(compile.added, compile.to_add))

\* the tracked textures that exist and are not multisample-resolvable
Unresolvable ==
    {name \in DOMAIN compile.texture_barriers \cap DOMAIN textures :
        ~is_resolvable(textures[name].texture)}

\* C17: at the end of frame of create_render_graph, the resolve step of every
\* tracked texture that is not multisample-resolvable returns an error, the
\* compilation goes on and returns Ok, and the plain transition barrier of the
\* texture to ShaderResource is emitted exactly when its tracked state is not
\* ShaderResource.
C17_ResolveErrorIgnored ==
    [][EndOfFrameStep
       => /\ pc' = "idle"
          /\ result' = "Ok"
          /\ \A name \in Unresolvable :
                /\ name \in compile'.resolve_errors
                /\ compile'.texture_barriers[name] = "ShaderResource"
                /\ (BarrierName("eof", name) \in DOMAIN barriers'
                      <=> compile.texture_barriers[name] # "ShaderResource")
                /\ (BarrierName("eof", name) \in Range(render_graph_execute_order')
                      <=> compile.texture_barriers[name] # "ShaderResource")]_vars

\* a compilation has returned Ok after the resolve step of the colour target
\* failed and its plain barrier was emitted, and after the resolve step of a
\* texture already in ShaderResource failed without a barrier
C17_Witness ==
    /\ pc = "idle"
    /\ result = "Ok"
    /\ "albedo" \in compile.resolve_errors
    /\ BarrierName("eof", "albedo") \in DOMAIN barriers
    /\ \E name \in compile.resolve_errors :
          BarrierName("eof", name) \notin DOMAIN barriers


----------------------------------------------------------------------------
(* C21: the end-of-frame barriers *)

\* entry i of the order is an end-of-frame barrier name
IsEndOfFrame(i) ==
    \E t \in DOMAIN pmfx.textures :
        render_graph_execute_order[i]
            \in {BarrierName("eof", t), ResolveBarrierName("eof", t)}

\* the tracked textures that exist and are multisampled
ResolvableTracked ==
    {t \in DOMAIN compile.texture_barriers \cap DOMAIN textures :
        is_resolvable(textures[t].texture)}

\* C21: after a create_render_graph that returned Ok, running the barriers of
\* the execution order in order leaves every texture of the tracking map in
\* ShaderResource; every end-of-frame barrier comes after the last view node;
\* a resolvable texture has its resolve barrier and after it its plain
\* end-of-frame transition.
C21_EndOfFrameShaderResource ==
    Returned =>
        /\ \A t \in DOMAIN compile.texture_barriers :
              /\ compile.texture_barriers[t] = "ShaderResource"
              /\ ReplayState(t, Len(render_graph_execute_order)) = "ShaderResource"
        /\ \A i, j \in 1..Len(render_graph_execute_order) :
              (IsEndOfFrame(i) /\ render_graph_execute_order[j] \in DOMAIN CompiledGraph)
                  => j < i
        /\ \A t \in ResolvableTracked :
              /\ ResolveBarrierName("eof", t) \in DOMAIN barriers
              /\ BarrierName("eof", t) \in DOMAIN barriers
              /\ \E i, j \in 1..Len(render_graph_execute_order) :
                    /\ i < j
                    /\ render_graph_execute_order[i] = ResolveBarrierName("eof", t)
                    /\ render_graph_execute_order[j] = BarrierName("eof", t)
                    /\ RequiredState(barriers[render_graph_execute_order[j]])
                           = "ShaderResource"

----------------------------------------------------------------------------
(* C32: the entries of the execution order *)

\* the entries of the execution order Pmfx::execute passes over: neither a
\* key of the barrier map nor a view
SkippedEntries ==
    {i \in 1..Len(render_graph_execute_order) :
        ExecuteNode(Engine, render_graph_execute_order[i]) = <<>>}

\* C32: after a create_render_graph that returned Ok, every entry of the
\* execution order names a command buffer of the barrier map or a live view;
\* execute skips no entry.
C32_NoDanglingEntry ==
    Returned =>
        /\ SkippedEntries = {}
        /\ \A i \in 1..Len(render_graph_execute_order) :
              render_graph_execute_order[i] \in DOMAIN barriers \cup DOMAIN views
----------------------------------------------------------------------------
(* Descriptor slots, as indices of their heap *)

FreeSlots(heap) == {get_handle_index(heap, heap.free_list[i]) : i \in 1..Len(heap.free_list)}

\* slots handed out by the bump offset so far
BumpedSlots(heap) == 0..((heap.offset \div heap.increment_size) - 1)

\* slots currently handed out
SlotsInUse(heap) == BumpedSlots(heap) \ FreeSlots(heap)

\* the slots of the shader heap a texture or a buffer holds
ShaderSlotsOf(tex) ==
    IF "resolved_srv_index" \in DOMAIN tex
    THEN tex.srv_index \cup tex.resolved_srv_index \cup tex.uav_index
    ELSE tex.srv_index \cup tex.uav_index

RtvSlotsOf(dev, tex) ==
    IF "rtv" \in DOMAIN tex THEN {get_handle_index(dev.rtv_heap, p) : p \in tex.rtv}
    ELSE {}

DsvSlotsOf(dev, tex) ==
    IF "dsv" \in DOMAIN tex THEN {get_handle_index(dev.dsv_heap, p) : p \in tex.dsv}
    ELSE {}

\* the slots of the rtv heap the back buffers of the swap chain hold
BackBufferSlots ==
    {get_handle_index(device.rtv_heap, swap_chain.backbuffer_rtv[i]) :
        i \in 1..Len(swap_chain.backbuffer_rtv)}

QueuedTextures(dev) == {dev.cleanup_textures[i].tex : i \in 1..Len(dev.cleanup_textures)}

----------------------------------------------------------------------------
(* C9: reclamation delay *)

C9_StillQueued ==
    \A i \in 1..Len(device.cleanup_textures) :
        LET e == device.cleanup_textures[i]
        IN /\ e.count <= num_bb
           /\ ShaderSlotsOf(e.tex) \cap FreeSlots(device.shader_heap) = {}
           /\ RtvSlotsOf(device, e.tex) \cap FreeSlots(device.rtv_heap) = {}
           /\ DsvSlotsOf(device, e.tex) \cap FreeSlots(device.dsv_heap) = {}
           /\ RtvSlotsOf(device, e.tex) \cap BackBufferSlots = {}
           /\ \A t \in held :
                /\ ShaderSlotsOf(e.tex) \cap ShaderSlotsOf(t) = {}
                /\ RtvSlotsOf(device, e.tex) \cap RtvSlotsOf(device, t) = {}
                /\ DsvSlotsOf(device, e.tex) \cap DsvSlotsOf(device, t) = {}

\* what one clean_up_resources call does to the entries queued when it starts
C9_CleanUpStep ==
    (held' = held /\ device'.next_resource = device.next_resource /\ device' # device) =>
        \A i \in 1..Len(device.cleanup_textures) :
            LET e == device.cleanup_textures[i]
            IN IF e.count < num_bb
               THEN [count |-> e.count + 1, tex |-> e.tex] \in Range(device'.cleanup_textures)
               ELSE /\ e.tex \notin QueuedTextures(device')
                    /\ e.tex.srv_index \subseteq FreeSlots(device'.shader_heap)
                    /\ RtvSlotsOf(device, e.tex) \subseteq FreeSlots(device'.rtv_heap)
                    /\ DsvSlotsOf(device, e.tex) \subseteq FreeSlots(device'.dsv_heap)

\* destroy_texture queues the texture with a count of 0
C9_DestroyStep ==
    (held' # held /\ held' \subseteq held) =>
        /\ Len(device'.cleanup_textures) = Len(device.cleanup_textures) + 1
        /\ Last(device'.cleanup_textures).count = 0
        /\ held = held' \cup {Last(device'.cleanup_textures).tex}

\* C9: with a swap chain of N = num_bb buffers, a texture handed to destroy_texture
\* stays queued, with none of its descriptor slots in a free list or handed out
\* again, during the N clean_up_resources calls that follow; call N+1 frees it.
C9_ReclamationDelay ==
    /\ [](pc = "idle" => C9_StillQueued)
    /\ [][C9_DestroyStep /\ C9_CleanUpStep]_vars

\* a destroyed texture that holds descriptors has waited N calls and is still queued
C9_Witness ==
    \E i \in 1..Len(device.cleanup_textures) :
        /\ device.cleanup_textures[i].count = num_bb
        /\ device.cleanup_textures[i].tex.srv_index # {}
        /\ device.cleanup_textures[i].tex.rtv # {}

----------------------------------------------------------------------------
(* C10: every descriptor of a freed texture goes back to its heap *)

HeldShaderSlots == UNION {ShaderSlotsOf(t) : t \in held}

\* C10: once the cleanup queue has drained, the descriptor slots in use are
\* exactly the slots of the live textures, in each of the three heaps; the
\* live buffers and the back buffers of the swap chain hold theirs.
C10_SlotsReleased ==
    (pc = "idle" /\ device.cleanup_textures = <<>>) =>
        /\ SlotsInUse(device.shader_heap) = HeldShaderSlots
        /\ SlotsInUse(device.rtv_heap)
              = BackBufferSlots \cup UNION {RtvSlotsOf(device, t) : t \in held}
        /\ SlotsInUse(device.dsv_heap) = UNION {DsvSlotsOf(device, t) : t \in held}


----------------------------------------------------------------------------
(* C28: one clean_up_resources call ages every queued entry once *)

\* the step is a clean_up_resources call
CleanUpCall ==
    /\ trace' # <<>>
    /\ trace'[1].op = "clean_up_resources"
    /\ held' = held
    /\ device'.next_resource = device.next_resource

\* the entry is still due to wait after one more frame
StillWaiting(e) == e.count + 1 <= num_bb

\* the entries of the queue, each one frame older
Aged(queue) == [i \in 1..Len(queue) |-> [queue[i] EXCEPT !.count = @ + 1]]

\* C28: a clean_up_resources call adds one to the counter of every entry
\* queued when it starts, also of the entries behind an entry it removes, and
\* when it returns no queued entry has a counter above the buffer count of the
\* swap chain: the queue is the old one without the entries whose counter
\* went above the buffer count, in order, each counter one higher.
C28_EveryEntryAgedOnce ==
    [][CleanUpCall
       => /\ device'.cleanup_textures
                = Aged(SelectSeq(device.cleanup_textures, StillWaiting))
          /\ \A i \in 1..Len(device'.cleanup_textures) :
                device'.cleanup_textures[i].count <= num_bb]_vars

\* the last clean_up_resources call found both textures of the run queued,
\* removed one of them and aged the other behind it
C28_Witness ==
    /\ trace # <<>>
    /\ trace[1].op = "clean_up_resources"
    /\ Cardinality(trace[1].of) = 2
    /\ device.next_resource = SwapChainResources + 3
    /\ held = {}
    /\ Len(device.cleanup_textures) = 1
    /\ device.cleanup_textures[1].count >= 1
----------------------------------------------------------------------------
(* C11, C12: the allocation policy of a descriptor heap *)

\* a step of Heap::allocate (a deallocate step makes the free list longer)
AllocateStep ==
    /\ <<caller_heap, handle, pc>>' # <<caller_heap, handle, pc>>
    /\ Len(caller_heap'.free_list) <= Len(caller_heap.free_list)

\* a step of Heap::deallocate
DeallocateStep == Len(caller_heap'.free_list) = Len(caller_heap.free_list) + 1

\* number of descriptors the heap was created with
NumDescriptors(h) == h.capacity \div h.increment_size

\* C11: allocate pops the most recently deallocated slot whenever the free list
\* is not empty, and leaves the bump offset alone; with an empty free list it
\* returns the next never-used slot and advances the offset by one increment.
\* deallocate pushes the slot on the end of the free list.
C11_LifoReuse ==
    [][/\ AllocateStep =>
            IF caller_heap.free_list # <<>>
            THEN /\ handle' = [status |-> "Ok", ptr |-> Last(caller_heap.free_list)]
                 /\ caller_heap'.offset = caller_heap.offset
                 /\ caller_heap'.free_list = SubSeq(caller_heap.free_list, 1, Len(caller_heap.free_list) - 1)
            ELSE handle'.status = "Ok" =>
                 /\ get_handle_index(caller_heap, handle'.ptr) = caller_heap.offset \div caller_heap.increment_size
                 /\ caller_heap'.offset = caller_heap.offset + caller_heap.increment_size
                 /\ caller_heap'.free_list = <<>>
       /\ DeallocateStep =>
            /\ caller_heap'.offset = caller_heap.offset
            /\ SubSeq(caller_heap'.free_list, 1, Len(caller_heap.free_list)) = caller_heap.free_list
      ]_vars

\* a heap of 4 descriptors, all bump-allocated, whose last allocation returned the
\* second slot again: the fifth allocation reused the deallocated slot
C11_Witness ==
    /\ NumDescriptors(caller_heap) = 4
    /\ caller_heap.offset = caller_heap.capacity
    /\ caller_heap.free_list = <<>>
    /\ handle.status = "Ok"
    /\ get_handle_index(caller_heap, handle.ptr) = 1

\* C12: allocate panics exactly when the free list is empty and every descriptor
\* of the heap has been bump-allocated; otherwise it returns a slot below
\* num_descriptors; the bump offset never decreases and never passes the capacity.
C12_FullHeapOnly ==
    /\ [](caller_heap.offset <= caller_heap.capacity)
    /\ [][/\ caller_heap'.offset >= caller_heap.offset
          /\ AllocateStep =>
               /\ handle'.status = "panic" <=>
                     (caller_heap.free_list = <<>>
                      /\ caller_heap.offset \div caller_heap.increment_size = NumDescriptors(caller_heap))
               /\ handle'.status # "panic" =>
                     /\ handle'.status = "Ok"
                     /\ get_handle_index(caller_heap, handle'.ptr) \in 0..(NumDescriptors(caller_heap) - 1)
         ]_vars

\* every slot of the free list is one the heap has bump-allocated
FreeListBumped(heap) ==
    \A i \in 1..Len(heap.free_list) :
        get_handle_index(heap, heap.free_list[i]) \in BumpedSlots(heap)

\* C12 as the code has it: allocate panics exactly when the free list is empty
\* and every descriptor of the heap has been bump-allocated; otherwise it
\* returns the next never-used slot, which is below num_descriptors, or the
\* slot deallocated last, which is below num_descriptors when the free list
\* holds only slots the heap has bump-allocated (deallocate pushes any index
\* it is given); the bump offset never decreases and never passes the
\* capacity.
C12_FullHeapOnlyOwnSlots ==
    /\ [](caller_heap.offset <= caller_heap.capacity)
    /\ [][/\ caller_heap'.offset >= caller_heap.offset
          /\ AllocateStep =>
               /\ handle'.status = "panic" <=>
                     (caller_heap.free_list = <<>>
                      /\ caller_heap.offset \div caller_heap.increment_size = NumDescriptors(caller_heap))
               /\ handle'.status # "panic" =>
                     /\ handle'.status = "Ok"
                     /\ handle'.ptr =
                           IF caller_heap.free_list = <<>>
                           THEN caller_heap.base_address + caller_heap.offset
                           ELSE Last(caller_heap.free_list)
                     /\ FreeListBumped(caller_heap) =>
                           get_handle_index(caller_heap, handle'.ptr)
                               \in 0..(NumDescriptors(caller_heap) - 1)
         ]_vars

\* an allocation on a full heap with an empty free list has panicked
C12_Witness ==
    /\ handle.status = "panic"
    /\ pc = "panicked"
    /\ NumDescriptors(caller_heap) = HeapSlots
    /\ caller_heap.offset = caller_heap.capacity
    /\ caller_heap.free_list = <<>>


----------------------------------------------------------------------------
(* C40: the slots of a heap whose caller frees only what it holds *)

\* the slots of the free list
FreeListSlots == {get_handle_index(caller_heap, caller_heap.free_list[i]) :
                     i \in 1..Len(caller_heap.free_list)}

\* C40: over any sequence of allocate calls and of deallocate calls on slots
\* that are allocated at the time, allocate never returns a slot that is still
\* allocated, no slot is both allocated and in the free list or twice in the
\* free list, and the number of allocated slots plus the length of the free
\* list is the number of slots taken by the bump offset so far.
C40_NoSlotTwice ==
    /\ [](/\ live \cap FreeListSlots = {}
          /\ Cardinality(FreeListSlots) = Len(caller_heap.free_list)
          /\ Cardinality(live) + Len(caller_heap.free_list)
                = caller_heap.offset \div caller_heap.increment_size
          /\ live \cup FreeListSlots = BumpedSlots(caller_heap))
    /\ [][(AllocateStep /\ handle'.status = "Ok")
          => get_handle_index(caller_heap, handle'.ptr) \notin live]_vars

\* the last allocation reused a freed slot while the caller held other slots
\* and another freed slot was still in the free list
C40_Witness ==
    /\ handle.status = "Ok"
    /\ get_handle_index(caller_heap, handle.ptr) \in live
    /\ get_handle_index(caller_heap, handle.ptr)
           # (caller_heap.offset \div caller_heap.increment_size) - 1
    /\ Cardinality(live) >= 2
    /\ caller_heap.free_list # <<>>
----------------------------------------------------------------------------
(* C13: idempotent creation *)

\* what create_texture, create_view and create_pipeline write
CreatedObjects ==
    <<device, textures, views, view_texture_refs, render_pipelines, shaders,
      compute_pipelines>>

\* the object the call c asks for is there already
AlreadyCreated(c) ==
    IF c.fn = "create_texture" THEN c.args[1] \in DOMAIN textures
    ELSE IF c.fn = "create_view" THEN c.args[2] \in DOMAIN views
    ELSE /\ c.args[2] \in DOMAIN render_pipelines
         /\ c.args[1] \in DOMAIN render_pipelines[c.args[2]]

\* C13: a call of create_texture, create_view or create_pipeline that repeats
\* the call before it, or that asks for an object that is there already,
\* creates no backend object and leaves every texture, view, pipeline and
\* shader entry as it was.
C13_IdempotentCreation ==
    [][(/\ pc = "idle"
        /\ call'.fn \in {"create_texture", "create_view", "create_pipeline"}
        /\ (call'.times = 2 \/ AlreadyCreated(call')))
       => CreatedObjects' = CreatedObjects]_vars

\* create_pipeline has been called twice in a row for a pipeline that the first
\* call built
C13_Witness ==
    /\ call.fn = "create_pipeline"
    /\ call.args[1] = "mesh"
    /\ call.times = 2
    /\ call.status = "Ok"
    /\ 0 \in DOMAIN render_pipelines[call.args[2]]["mesh"]
    /\ "vs_mesh" \in DOMAIN shaders

----------------------------------------------------------------------------
(* C18: lookups by name *)

\* C18: get_view, get_camera_constants and
\* get_render_pipeline_permutation_for_format return an error value when there
\* is no object for the name (for a pipeline: for the format hash, the name and
\* the permutation mask) and the object otherwise; they never panic.
C18_LookupsNeverPanic ==
    call.fn \in {"get_view", "get_camera_constants",
                 "get_render_pipeline_permutation_for_format"}
    => /\ call.status \in {"Ok", "Err"}
       /\ call.status = "Ok" <=> call.value # {}


----------------------------------------------------------------------------
(* C19: declarations missing from the data model *)

\* the textures a view of the data model names
ViewTextures(pmfx_view) == Range(pmfx_view.render_target) \cup Range(pmfx_view.depth_stencil)

\* the pipelines a node names
NamedPipelines(instance) ==
    IF instance.pipelines = {} THEN {} ELSE Range(CHOOSE p \in instance.pipelines : TRUE)

\* a node of the graph has a view over an undeclared texture or names an
\* undeclared pipeline
MissingDeclaration(graph) ==
    \E n \in DOMAIN graph :
        \/ /\ graph[n].view \in DOMAIN pmfx.views
           /\ ViewTextures(pmfx.views[graph[n].view]) \ DOMAIN pmfx.textures # {}
        \/ NamedPipelines(graph[n]) \ DOMAIN pmfx.pipelines # {}

\* the last call is create_render_graph for a graph of the data model with a
\* missing declaration
CompilesMissingDeclaration ==
    /\ call.fn = "create_render_graph"
    /\ call.args[1] \in DOMAIN pmfx.render_graphs
    /\ MissingDeclaration(pmfx.render_graphs[call.args[1]])

\* C19: a create_render_graph call for a graph in which a view names an
\* undeclared render-target or depth-stencil texture, or a node names an
\* undeclared pipeline, skips the reference: it neither panics nor returns an
\* error, and when it has returned it has returned Ok with every node of a
\* declared view scheduled.
C19_MissingDeclarationSkipped ==
    CompilesMissingDeclaration
    => /\ pc # "panicked"
       /\ result # "Err"
       /\ (pc = "idle"
            => /\ result = "Ok"
               /\ \A n \in DOMAIN pmfx.render_graphs[call.args[1]] :
                     pmfx.render_graphs[call.args[1]][n].view \in DOMAIN pmfx.views
                     => n \in Range(render_graph_execute_order))

----------------------------------------------------------------------------
(* C20: a graph name that is not in the data model *)

\* C20: create_render_graph with a graph name that is not in the data model
\* returns an error and leaves the execution order, the barriers, the views and
\* active_render_graph as they were; active_render_graph changes only in the
\* step in which the compilation of a graph returns Ok, and then to the name of
\* that graph.
C20_MissingGraphIsAnError ==
    /\ [][(/\ pc = "idle"
           /\ call'.fn = "create_render_graph"
           /\ call'.args[1] \notin DOMAIN pmfx.render_graphs)
          => /\ result' = "Err"
             /\ pc' = "idle"
             /\ UNCHANGED <<render_graph_execute_order, barriers, views,
                            active_render_graph>>]_vars
    /\ [][active_render_graph' # active_render_graph
          => /\ pc = "compile"
             /\ pc' = "idle"
             /\ result' = "Ok"
             /\ call.args[1] \in DOMAIN pmfx.render_graphs
             /\ active_render_graph' = call.args[1]]_vars

\* a graph has been compiled and is active, and a call with the name of no
\* graph has returned an error since
C20_Witness ==
    /\ call.fn = "create_render_graph"
    /\ call.args = <<"missing_graph">>
    /\ pc = "idle"
    /\ result = "Err"
    /\ active_render_graph = "main"
    /\ render_graph_execute_order # <<>>
    /\ DOMAIN barriers # {}

----------------------------------------------------------------------------
(* C30: a compilation starts from an empty barrier set and execution order *)

\* the names a compilation of the graph can push for the view or step `name`
BarrierNamesOf(name) ==
    UNION {{BarrierName(name, t), ResolveBarrierName(name, t)} : t \in DOMAIN pmfx.textures}

\* the entries a compilation of the graph can produce: its nodes with a
\* declared view, the barriers of their views and the end-of-frame barriers
ProducedBy(graph) ==
    {n \in DOMAIN graph : ViewDeclared(graph[n])}
    \cup UNION {BarrierNamesOf(graph[n].view) : n \in DOMAIN graph}
    \cup BarrierNamesOf("eof")

\* the view entries of an execution order
ViewEntries(order) == {order[i] : i \in {k \in 1..Len(order) : order[k] \in DOMAIN views}}

\* the engine after a compilation has the barrier set and the execution order
\* of this state, up to the order of the end-of-frame barriers
SameCompilation(r) ==
    /\ r.status = "run"
    /\ Len(r.render_graph_execute_order) = Len(render_graph_execute_order)
    /\ Range(r.render_graph_execute_order) = Range(render_graph_execute_order)
    /\ ViewEntries(r.render_graph_execute_order) = ViewEntries(render_graph_execute_order)
    /\ r.barriers = barriers

\* C30: after any sequence of create_render_graph calls, of the same or of
\* different graphs, the barrier set and the execution order of a call that
\* returned Ok hold only entries of that call: node names and barrier names
\* of the compiled graph, every barrier of the set named in the order; and a
\* compilation of the same graph again gives the same view entries, the same
\* barrier set and an execution order of the same length.
C30_RebuiltFromScratch ==
    Returned =>
        /\ Range(render_graph_execute_order) \subseteq ProducedBy(CompiledGraph)
        /\ DOMAIN barriers \subseteq Range(render_graph_execute_order)
        /\ \A srvs \in KeyOrders(DOMAIN compile.texture_barriers) :
              SameCompilation(create_render_graph(Engine, compile.graph_name,
                                                  overflow_checks, srvs))

\* a compilation has returned Ok while another graph, compiled before it, was
\* the active one, with views and barriers in the order
C30_Witness ==
    /\ Returned
    /\ call.fn = "create_render_graph"
    /\ call.active \in DOMAIN pmfx.render_graphs \ {compile.graph_name}
    /\ active_render_graph = compile.graph_name
    /\ ViewEntries(render_graph_execute_order) # {}
    /\ DOMAIN barriers # {}
----------------------------------------------------------------------------
(* C15: resize of a window *)

\* the window of the ratio of a live texture, if it has one
RatioWindow(t) == {r.window : r \in textures[t].ratio}

\* the step is an update_window call that changes the tracked size of a window
SizeChanges ==
    /\ pc = "idle"
    /\ call'.fn = "update_window"
    /\ call'.args[2] \in DOMAIN window_sizes
    /\ window_sizes[call'.args[2]] # call'.args[1]

\* the live textures whose ratio names the window
TexturesOf(name) == {t \in DOMAIN textures : name \in RatioWindow(t)}

\* the live views with a back reference from a texture of the window
ViewsOf(name) ==
    {v \in DOMAIN views :
        \E t \in TexturesOf(name) \cap DOMAIN view_texture_refs : v \in view_texture_refs[t]}

\* after the step the texture is a new backend texture of the size resolved
\* from the new size of the window
Recreated(t) ==
    /\ t \in DOMAIN textures'
    /\ textures'[t].texture.resource # textures[t].texture.resource
    /\ \E r \in pmfx.textures[t].ratio :
          /\ textures'[t].size =
                <<ScaledSize(Max(window_sizes'[r.window][1], pmfx.textures[t].samples),
                             r.scale),
                  ScaledSize(Max(window_sizes'[r.window][2], pmfx.textures[t].samples),
                             r.scale)>>
          /\ (window_sizes'[r.window] = <<1600, 1200>> /\ r.scale = 1
              => textures'[t].size = <<800, 600>>)

\* after the step the view is there again, over the textures that are live then
ViewRebuilt(v) ==
    /\ v \in DOMAIN views'
    /\ \A i \in 1..Len(pmfx.views[views[v].pmfx_view_name].render_target) :
          LET name == pmfx.views[views[v].pmfx_view_name].render_target[i]
          IN {views'[v].pass.rt[i]} = textures'[name].texture.rtv

\* C15: an update_window call that changes the tracked size of a window
\* returns with every live texture whose ratio names the window recreated at
\* the size resolved from the new window size and the scale (1600x1200 at 0.5
\* gives 800x600), and with every view that referenced such a texture rebuilt.
C15_ResizeRecreates ==
    [][SizeChanges
       => /\ pc' = "idle"
          /\ window_sizes'[call'.args[2]] = call'.args[1]
          /\ \A t \in TexturesOf(call'.args[2]) : Recreated(t)
          /\ \A v \in ViewsOf(call'.args[2]) : ViewRebuilt(v)]_vars

----------------------------------------------------------------------------
(* C16: size of a window-ratio texture *)

\* C16: the recorded width and height of every live window-ratio texture are
\* at least the sample count of the texture, and so not zero.
C16_SizeAtLeastSamples ==
    \A t \in DOMAIN textures :
        textures[t].ratio # {}
        => /\ textures[t].size[1] >= textures[t].texture.samples
           /\ textures[t].size[2] >= textures[t].texture.samples
           /\ textures[t].size[1] > 0
           /\ textures[t].size[2] > 0


----------------------------------------------------------------------------
(* C24: the GPU wait ahead of the removal of resources *)

\* the steps of the last call that remove a view or destroy a texture
Mutations ==
    {i \in 1..Len(trace) : trace[i].op \in {"views.remove", "destroy_texture"}}

\* C24: in an update_window call, as in the reload of new_frame, a wait for the
\* last frame on the GPU comes before the first removal of a view and the
\* first destroy_texture call.
C24_WaitBeforeMutation ==
    \A i \in Mutations :
        \E j \in 1..(i - 1) : trace[j].op = "wait_for_last_frame"

----------------------------------------------------------------------------
(* C25: the viewport of a view *)

\* the render targets of a live view
RenderTargets(v) == pmfx.views[views[v].pmfx_view_name].render_target

\* C25: the viewport and the scissor rectangle of a view have the size of the
\* first render target of the view, also when the view has more render
\* targets or a depth-stencil texture.
C25_ViewportOfFirstTarget ==
    \A v \in DOMAIN views :
        (RenderTargets(v) # <<>> /\ RenderTargets(v)[1] \in DOMAIN textures)
        => /\ views[v].viewport.width = textures[RenderTargets(v)[1]].size[1]
           /\ views[v].viewport.height = textures[RenderTargets(v)[1]].size[2]
           /\ views[v].scissor_rect.right = textures[RenderTargets(v)[1]].size[1]
           /\ views[v].scissor_rect.bottom = textures[RenderTargets(v)[1]].size[2]
----------------------------------------------------------------------------
(* C14: reload of objects whose hash did not change *)

\* the step is a reload call
ReloadStep == pc = "idle" /\ call'.fn = "reload" /\ disk' = disk

\* (format, pipeline name, mask) of the live render pipeline permutations
LivePermutations ==
    UNION {UNION {{<<fmt, name, mask>> : mask \in DOMAIN render_pipelines[fmt][name]} :
                  name \in DOMAIN render_pipelines[fmt]} :
           fmt \in DOMAIN render_pipelines}

\* the live entry of the permutation p is the same after the step
PermutationKept(p) ==
    /\ p[1] \in DOMAIN render_pipelines'
    /\ p[2] \in DOMAIN render_pipelines'[p[1]]
    /\ p[3] \in DOMAIN render_pipelines'[p[1]][p[2]]
    /\ render_pipelines'[p[1]][p[2]][p[3]] = render_pipelines[p[1]][p[2]][p[3]]

\* C14: a reload leaves alone every live texture, view, pipeline permutation
\* and shader whose stored hash equals the hash the reloaded data file reports
\* for it: the entry and its backend object are the same after the reload.
C14_SameHashKept ==
    [][ReloadStep
       => /\ \A t \in DOMAIN textures :
                pmfx'.textures[t].hash = textures[t].hash
                => t \in DOMAIN textures' /\ textures'[t] = textures[t]
          /\ \A v \in DOMAIN views :
                pmfx'.views[views[v].pmfx_view_name].hash = views[v].hash
                => v \in DOMAIN views' /\ views'[v] = views[v]
          /\ \A p \in LivePermutations :
                pmfx'.pipelines[p[2]][MaskString(p[3])].hash
                    = render_pipelines[p[1]][p[2]][p[3]].hash
                => PermutationKept(p)
          /\ \A s \in DOMAIN shaders :
                pmfx'.shaders[s] = shaders[s].hash
                => s \in DOMAIN shaders' /\ shaders'[s] = shaders[s]]_vars


----------------------------------------------------------------------------
(* C26: reload of one permutation of a pipeline *)

\* the step is a call and not only a build: a build on its own leaves the
\* caller where it is and the reloader Available
CallStep == disk' = disk \/ pc' # pc \/ reloader' = "Unchanged"

\* the step is a reload, called directly or by new_frame, also one during
\* which a build lands
Reloads == pc = "idle" /\ call'.fn \in {"reload", "new_frame"} /\ CallStep

\* the live permutations of the pipeline `name` of the format whose stored hash
\* differs from the hash of the data file the step reloads
ChangedMasks(fmt, name) ==
    {mask \in DOMAIN render_pipelines[fmt][name] :
        pmfx'.pipelines[name][MaskString(mask)].hash
            # render_pipelines[fmt][name][mask].hash}

\* C26: when exactly one live permutation of a pipeline name and format has a
\* changed hash, a reload leaves the entries of the other permutations of that
\* name and format as they are, with the backend objects they had.
C26_OtherPermutationsKept ==
    [][Reloads
       => \A fmt \in DOMAIN render_pipelines :
             \A name \in DOMAIN render_pipelines[fmt] :
                Cardinality(ChangedMasks(fmt, name)) = 1
                => \A mask \in DOMAIN render_pipelines[fmt][name]
                                 \ ChangedMasks(fmt, name) :
                      PermutationKept(<<fmt, name, mask>>)]_vars

----------------------------------------------------------------------------
(* C27: the tracked modification time of a reloaded file *)

\* the step is a reload that returned after it read a changed file, with no
\* build since
ReloadsFile ==
    /\ Reloads
    /\ disk' = disk
    /\ call'.status = "Ok"
    /\ \E i \in 1..Len(trace') : trace'[i].op = "read"

\* C27: once a reload has processed a changed file, the tracked modification
\* time of the file is not older than the file on disk, so that a reload that
\* follows without a new build does not select the file again.
C27_TimestampUpdated ==
    [][ReloadsFile
       => \A name \in DOMAIN pmfx_tracking' :
             disk'[PathString(pmfx_tracking'[name].filepath)].modified
                 <= pmfx_tracking'[name].modified_time]_vars

----------------------------------------------------------------------------
(* C23: the steps of new_frame *)

\* the operations of the steps of a call, in order
Ops(steps) == [i \in 1..Len(steps) |-> steps[i].op]

\* a step of new_frame itself
FrameStep(e) == e.op \in {"wait_for_last_frame", "reload", "complete_reload", "reset"}

\* the step is a new_frame call that returned
NewFrameReturns ==
    pc = "idle" /\ call'.fn = "new_frame" /\ call'.status = "Ok" /\ CallStep

\* C23: when the reloader reports Available, new_frame waits for the last
\* frame, reloads, completes the reload and then resets the command buffers,
\* in this order; when it does not, new_frame only resets the command buffers:
\* no wait, no reload and no complete_reload.
C23_NewFrameOrder ==
    [][NewFrameReturns
       => IF reloader = "Available"
          THEN /\ Ops(SelectSeq(trace', FrameStep))
                      = <<"wait_for_last_frame", "reload", "complete_reload", "reset">>
               /\ trace'[1].op = "wait_for_last_frame"
               /\ Last(trace').op = "reset"
               /\ reloader' = "Unchanged"
          ELSE /\ Ops(trace') = <<"reset">>
               /\ reloader' = reloader
               /\ pmfx' = pmfx
               /\ textures' = textures]_vars

\* a new_frame call has returned after the reloader reported Available and
\* the reload recreated a texture of a compiled graph
C23_Witness ==
    /\ pc = "idle"
    /\ call.fn = "new_frame"
    /\ call.args = <<"Available">>
    /\ call.status = "Ok"
    /\ \E i \in 1..Len(trace) : trace[i].op = "destroy_texture"
    /\ \E i \in 1..Len(trace) : trace[i].op = "create_render_graph"
    /\ reloader = "Unchanged"

----------------------------------------------------------------------------
(* C29: reload of a texture whose hash changed *)

\* the step is a reload that returned
ReloadReturns == Reloads /\ call'.status = "Ok"

\* the live textures whose stored hash differs from the hash of the data file
\* the step reloads
ChangedTextures ==
    {t \in DOMAIN textures :
        t \in DOMAIN pmfx'.textures /\ pmfx'.textures[t].hash # textures[t].hash}

\* the record of the call has a step `op` about all of `names`
Did(steps, op, names) ==
    \E i \in 1..Len(steps) : steps[i].op = op /\ names \subseteq steps[i].of

\* C29: when a reload finds a live texture whose stored hash differs from the
\* hash of the data file, it hands the old texture to destroy_texture, creates
\* a texture of the same name with the new hash, removes every view the back
\* references record for the texture and recompiles the active render graph
\* before it returns.
C29_ChangedTextureReloaded ==
    [][ReloadReturns
       => \A t \in ChangedTextures :
             /\ textures[t].texture \in QueuedTextures(device')
             /\ t \in DOMAIN textures'
             /\ textures'[t].hash = pmfx'.textures[t].hash
             /\ textures'[t].texture.resource # textures[t].texture.resource
             /\ get_view_texture_refs(Engine, t) \cap DOMAIN views # {}
                => Did(trace', "views.remove",
                       get_view_texture_refs(Engine, t) \cap DOMAIN views)
             /\ Did(trace', "create_render_graph", {active_render_graph})]_vars

----------------------------------------------------------------------------
(* C22: the textures of the resource-state tracking map *)

\* the textures declared for shader-resource use and for use as a render
\* target or depth stencil
ReadAndWritten ==
    {t \in DOMAIN pmfx.textures :
        /\ "ShaderResource" \in pmfx.textures[t].usage
        /\ \/ "RenderTarget" \in pmfx.textures[t].usage
           \/ "DepthStencil" \in pmfx.textures[t].usage}

\* a create_render_graph call is past the seeding of its tracking map
Seeded == pc = "compile" \/ Returned

\* C22: the tracking map of a create_render_graph call holds exactly the
\* textures whose declared usage has ShaderResource and RenderTarget or
\* DepthStencil, seeded with ShaderResource; a texture declared only as render
\* target or only as depth stencil is not tracked and has no barrier.
C22_TracksReadAndWritten ==
    Seeded =>
        /\ DOMAIN compile.texture_barriers = ReadAndWritten
        /\ compile.added = 0 /\ render_graph_execute_order = <<>>
           => \A t \in DOMAIN compile.texture_barriers :
                 compile.texture_barriers[t] = "ShaderResource"
        /\ \A b \in DOMAIN barriers : barriers[b].texture \in ReadAndWritten
----------------------------------------------------------------------------
(* C36: the names of the barriers *)

\* the entries of the order pushed by the barrier functions
BarrierEntries ==
    {i \in 1..Len(render_graph_execute_order) :
        render_graph_execute_order[i] \notin DOMAIN CompiledGraph}

\* C36: after a create_render_graph that returned Ok the barrier entries of
\* the execution order are pairwise distinct, each has its command buffer in
\* the barrier map, and the command buffer found at a position is the one
\* recorded for it: its first transition starts from the state the entries
\* before it leave the texture in.
C36_BarrierNamesDistinct ==
    Returned =>
        /\ \A i, j \in BarrierEntries :
              i # j => render_graph_execute_order[i] # render_graph_execute_order[j]
        /\ \A i \in BarrierEntries :
              /\ render_graph_execute_order[i] \in DOMAIN barriers
              /\ barriers[render_graph_execute_order[i]].cmds[1].before
                    = ReplayState(barriers[render_graph_execute_order[i]].texture, i - 1)
----------------------------------------------------------------------------
(* C33: a depends_on list that is present and empty *)

\* the nodes of the graph being compiled whose depends_on is Some(vec![])
EmptyDependsOnNodes ==
    {n \in DOMAIN CompiledGraph : CompiledGraph[n].depends_on = {<<>>}}

\* C33: a create_render_graph call on a graph with a node whose depends_on is
\* present and empty returns, with every such node in the execution order as
\* a node without dependencies would be.
C33_EmptyDependsOnScheduled ==
    (pc = "compile" /\ EmptyDependsOnNodes # {})
        ~> (/\ pc = "idle"
            /\ result = "Ok"
            /\ \A n \in EmptyDependsOnNodes :
                  Cardinality(PositionsOf(render_graph_execute_order, n)) = 1)
----------------------------------------------------------------------------
(* C39: update_window before a render graph is compiled *)

\* C39: every update_window call returns: it neither panics nor hangs, also
\* when the views it removes were created by create_render_graph_views and no
\* render graph has been compiled (active_render_graph is empty).
C39_UpdateWindowCompletes ==
    call.fn = "update_window" => (call.status = "Ok" /\ pc = "idle")

----------------------------------------------------------------------------
(* C34, C35: the objects that outlive a recreated texture *)

\* the resources of the textures handed to Device::destroy_texture
DestroyedResources ==
    {device.cleanup_textures[i].tex.resource : i \in DOMAIN device.cleanup_textures}

\* update_window or reload has returned
ReturnedRecreating == call.fn \in {"update_window", "reload"} /\ call.status = "Ok" /\ pc = "idle"

\* C34: after update_window or reload returns, no command buffer of the
\* barrier map refers to a texture that was handed to destroy_texture, a
\* texture no view references included.
C34_NoStaleBarrier ==
    ReturnedRecreating => \A b \in DOMAIN barriers : barriers[b].resource \notin DestroyedResources

\* the textures handed to Device::destroy_texture
DestroyedTextures ==
    {device.cleanup_textures[i].tex : i \in DOMAIN device.cleanup_textures}

\* the descriptors the render pass of a live view is bound to
BoundTargets(v) == Range(views[v].pass.rt) \cup views[v].pass.ds

\* the descriptors of the live textures the view of v names as its targets
DeclaredTargets(v) ==
    UNION {textures[t].texture.rtv \cup textures[t].texture.dsv :
              t \in (Range(pmfx.views[views[v].pmfx_view_name].render_target)
                     \cup Range(pmfx.views[views[v].pmfx_view_name].depth_stencil))
                    \cap DOMAIN textures}

\* C35: after update_window or reload returns, the render pass of no live
\* view is bound to a texture that was handed to destroy_texture: every live
\* view is bound to the live textures of its targets, the views of the active
\* graph that were removed having been created again.
C35_NoStaleView ==
    ReturnedRecreating =>
        \A v \in DOMAIN views :
            /\ \A tex \in DestroyedTextures : BoundTargets(v) \cap (tex.rtv \cup tex.dsv) = {}
            /\ BoundTargets(v) \subseteq DeclaredTargets(v)

\* reload has returned after it recreated the colour target a second time,
\* removed the view of the active graph over it and created the view again
C35_Witness ==
    /\ ReturnedRecreating
    /\ call.fn = "reload"
    /\ Len(device.cleanup_textures) >= 2
    /\ \E i \in DOMAIN trace : trace[i].op = "views.remove" /\ "n1" \in trace[i].of
    /\ \E i \in DOMAIN trace : trace[i].op = "destroy_texture" /\ "albedo" \in trace[i].of
    /\ "n1" \in DOMAIN views
    /\ BoundTargets("n1") = textures["albedo"].texture.rtv
----------------------------------------------------------------------------
(* C37: the build hashes of the live objects after a reload *)

\* the live render pipelines: (format, pipeline name, mask)
LivePipelines ==
    UNION {UNION {{<<fmt, name, mask>> : mask \in DOMAIN render_pipelines[fmt][name]} :
                     name \in DOMAIN render_pipelines[fmt]} :
              fmt \in DOMAIN render_pipelines}

\* the compute permutations the data model declares for a pipeline name
ComputePermutations(name) ==
    {p \in DOMAIN pmfx.pipelines[name] : pmfx.pipelines[name][p].cs # {}}

\* C37: after reload returns, the stored build hash of every live texture,
\* view, shader, render pipeline and compute pipeline is the hash the merged
\* data model declares for it.
C37_HashesCurrent ==
    (call.fn = "reload" /\ call.status = "Ok" /\ pc = "idle") =>
        /\ \A t \in DOMAIN textures \cap DOMAIN pmfx.textures :
              textures[t].hash = pmfx.textures[t].hash
        /\ \A v \in DOMAIN views :
              views[v].pmfx_view_name \in DOMAIN pmfx.views =>
                  views[v].hash = pmfx.views[views[v].pmfx_view_name].hash
        /\ \A s \in DOMAIN shaders \cap DOMAIN pmfx.shaders :
              shaders[s].hash = pmfx.shaders[s]
        /\ \A p \in LivePipelines :
              render_pipelines[p[1]][p[2]][p[3]].hash
                  = pmfx.pipelines[p[2]][MaskString(p[3])].hash
        /\ \A name \in DOMAIN compute_pipelines \cap DOMAIN pmfx.pipelines :
              \E p \in ComputePermutations(name) :
                  compute_pipelines[name].hash = pmfx.pipelines[name][p].hash
----------------------------------------------------------------------------
(* C38: a create_pipeline call that fails *)

\* the format has an entry for the pipeline name
HasEntry(fmt, pipeline_name) ==
    fmt \in DOMAIN render_pipelines /\ pipeline_name \in DOMAIN render_pipelines[fmt]

\* every permutation the data model declares for the pipeline name is built:
\* the render permutations under the format, a compute permutation under the
\* pipeline name
Built(fmt, pipeline_name) ==
    /\ HasEntry(fmt, pipeline_name)
    /\ \A p \in DOMAIN pmfx.pipelines[pipeline_name] :
          IF pmfx.pipelines[pipeline_name][p].cs = {}
          THEN ParseMask(p) \cap DOMAIN render_pipelines[fmt][pipeline_name] # {}
          ELSE pipeline_name \in DOMAIN compute_pipelines

\* C38: a create_pipeline call for a declared pipeline that returns Err leaves
\* no entry for the pipeline name under the format of the pass, and one that
\* returns Ok has built the pipeline: a call after a failed one attempts the
\* build again.
C38_FailedPipelineLeavesNoEntry ==
    (call.fn = "create_pipeline" /\ call.args[1] \in DOMAIN pmfx.pipelines) =>
        /\ call.status = "Err" => ~HasEntry(call.args[2], call.args[1])
        /\ call.status = "Ok" => Built(call.args[2], call.args[1])
----------------------------------------------------------------------------
(* C31: the command buffer of a view and the back buffers of the swap chain *)

\* the views whose command buffers new_frame resets
FrameViews == ResetViews(Engine)

\* C31: the command buffer of every view has one buffer per back buffer of the
\* swap chain, and a new_frame call returns with the command buffer of every
\* view of the execution order on a buffer it has, whichever back buffer the
\* swap chain reports.
C31_CmdBufMatchesSwapChain ==
    /\ \A v \in DOMAIN views : views[v].cmd_buf.num_buffers = swap_chain.num_bb
    /\ call.fn = "new_frame" =>
          /\ call.status = "Ok"
          /\ \A v \in FrameViews : cmd_buf_in_bounds(views[v].cmd_buf)

====
